---- MODULE Spec2Model ----
(***************************************************************************)
(* State-machine model of the openpull-node connection and delivery        *)
(* engine: the retention buffer (log-buffer.ts), the module-level          *)
(* connection helpers (connection.ts), the stream-side submission path     *)
(* (connection-manager: sendLogData) and the WebRTC manager (signaling     *)
(* messages, per-peer RTC connections, timers).                            *)
(*                                                                         *)
(* Every action is one callback of the single-threaded event loop, run to  *)
(* completion.  Peer ids are modelled as integers whose order stands for   *)
(* the lexicographic order of the server-assigned id strings.  A log entry *)
(* is identified by its submission number.                                 *)
(***************************************************************************)
EXTENDS Integers, Sequences, FiniteSets, TLC

\* ---------------------------------------------------------------- bounds
MaxLogs == 2
MaxJoinTimers == 1
\* the instants at which callbacks run (ms)
Instants == {0, 60000, 65000}

PeerIds == {1, 3}
OwnIds == {2}
Roles == {"appender", "reader"}

\* ------------------------------------------------------- program constants
BUFFER_RETENTION_MS == 60 * 1000
NoPeerId == 0
maxReconnectionAttempts == 5

VARIABLES
    now,              \* Date.now(), in ms
    buffer,           \* log-buffer.ts: BufferedLog[] of the global buffer
    isForwarding,     \* connection-manager: recursion flag
    attached,         \* a forward()/forwardStreams() interception is installed
    activeManager,    \* connection.ts: activeManager !== null
    signalingWs,      \* state.signalingWs: "null", "connecting" or "open"
    myPeerId,         \* state.myPeerId (NoPeerId for null)
    myRole,           \* state.myRole ("null" for null)
    peers,            \* state.peers: Map peerId -> role
    rtcConnections,   \* state.rtcConnections: Map peerId -> RTCConnection
    cleanupInterval,  \* state.cleanupInterval !== null
    joinTimers,       \* pending setTimeout closures of handlePeerJoined
    peerRole,         \* environment: the role each remote peer really has
    nextId,           \* number of the next submitted entry
    chanLast,         \* per peer: last entry handed to its current data channel (0: none)
    chanFresh,        \* per peer: its channel opened and nothing was submitted since
    sent,             \* per peer: messages handed to its data channel in the last step
    notified,         \* per peer: connection-observer firings in the last step
    delivery          \* delivery call made by the last step: "sendLogData", "replay" or "none"

\* state of the finer-grained views of the manager; the delivery
\* specifications leave it as it is initially
VARIABLES
    mgr,                   \* election view: the manager state of each of two processes
    connects,              \* one record per manager.connect() call: promise and socket
    wsHandle,              \* index in connects of the socket state.signalingWs holds (0: null)
    liveIntervals,         \* number of setInterval timers that are armed
    myPublicToken,         \* state.myPublicToken ("null" for null)
    myKeyHex,              \* state.myKeyHex ("null" for null)
    defaultFields,         \* state.defaultFields ("undefined" when absent)
    reconnectionAttempts,  \* state.reconnectionAttempts
    outbox                 \* the signaling messages handed to a socket so far

\* state of the parsing view and of the stream and API view
VARIABLES
    parseInput,            \* the argument a parser is applied to
    parseOutput,           \* what the parser returned or threw
    write,                 \* per process stream: the interceptors stacked on its write
    listeners,             \* per child readable: the number of 'data' listeners
    handles,               \* one record per forward()/forwardStreams() call
    written,               \* calls the underlying writers received in the last step
    submitted,             \* entries sendLogData took in in the last step
    received,              \* the event the last step handled
    registry,              \* state.logHandlers and state.connectionHandlers
    issued,                \* the unregister handles onLog and onConnection returned
    invoked,               \* the handlers the last step invoked, in order
    moduleCalls            \* one record per call of connect() of connection.ts

streamVars == <<write, listeners, handles, written, submitted, received>>

observerVars == <<registry, issued, invoked>>

ioVars == <<parseInput, parseOutput, streamVars, observerVars, moduleCalls>>

extVars == <<mgr, connects, wsHandle, liveIntervals, myPublicToken, myKeyHex,
             defaultFields, reconnectionAttempts, outbox, ioVars>>

mgrVars == <<activeManager, signalingWs, myPeerId, myRole, peers, rtcConnections,
             cleanupInterval, joinTimers>>

vars == <<now, buffer, isForwarding, attached, activeManager,
          signalingWs, myPeerId, myRole, peers, rtcConnections, cleanupInterval,
          joinTimers, peerRole, nextId, chanLast, chanFresh, sent, notified, delivery,
          mgr, connects, wsHandle, liveIntervals, myPublicToken, myKeyHex,
          defaultFields, reconnectionAttempts, outbox, ioVars>>

\* ---------------------------------------------------------------- helpers
NoSends == [p \in PeerIds |-> <<>>]
NoNotes == [p \in PeerIds |-> <<>>]

RemoveKey(m, k) == [q \in DOMAIN m \ {k} |-> m[q]]
PutKey(m, k, v) == [q \in DOMAIN m \cup {k} |-> IF q = k THEN v ELSE m[q]]
EmptyMap == [q \in {} |-> q]

\* JSON.stringify(logData): the text put on the wire for an entry
JSONstringify(logData) == <<"json", logData>>

\* ----------------------------------------------------------- log-buffer.ts
\* mutant: the loop body runs once, so at most one expired entry is removed
purgeOldLogs_FirstOnly(buf, t) ==
    IF buf = <<>> THEN buf
    ELSE IF Head(buf).timestamp >= t - BUFFER_RETENTION_MS THEN buf
    ELSE Tail(buf)

\* purgeOldLogs(): drop the leading entries older than the cutoff
RECURSIVE purgeOldLogs(_, _)
purgeOldLogs(buf, t) ==
    IF buf = <<>> THEN buf
    ELSE IF Head(buf).timestamp >= t - BUFFER_RETENTION_MS THEN buf
    ELSE purgeOldLogs(Tail(buf), t)

addLog(buf, logData, t) ==
    purgeOldLogs(Append(buf, [logData |-> logData, timestamp |-> t]), t)

LogDataOf(buf) == [i \in 1..Len(buf) |-> buf[i].logData]

\* mutant: the destructive read of getAndClearLogs()
getLogs_buffer_Cleared(buf, t) == <<>>

\* getLogs(): the buffer it leaves behind
getLogs_buffer(buf, t) == purgeOldLogs(buf, t)

\* mutant: the list is mapped from the buffer as it was before the purge
getLogs_Unpurged(buf, t) == LogDataOf(buf)

\* getLogs(): the list it returns
getLogs(buf, t) == LogDataOf(purgeOldLogs(buf, t))

\* getBufferedLogs()
getBufferedLogs(buf, t) == getLogs(buf, t)

\* size(): purge, then length
size(buf, t) == purgeOldLogs(buf, t)

\* ------------------------------------------------------------ WebRTC manager
isConnected == signalingWs = "open" /\ myPeerId # NoPeerId

shouldConnectToPeer(role, pRole) ==
    \/ role = "reader" /\ pRole = "appender"
    \/ role = "appender" /\ pRole = "reader"

NewConnection(role, dc) ==
    [role |-> role, isConnected |-> FALSE, dataChannel |-> dc, pcState |-> "new"]

\* mutant: an existing connection is replaced by a new one
initiatePeerConnection_Replace(conns, peerId, role, isInitiator) ==
    PutKey(conns, peerId,
           NewConnection(role, IF isInitiator THEN "connecting" ELSE "none"))

initiatePeerConnection(conns, peerId, role, isInitiator) ==
    IF peerId \in DOMAIN conns THEN conns
    ELSE PutKey(conns, peerId,
                NewConnection(role, IF isInitiator THEN "connecting" ELSE "none"))

shouldBeInitiator(own, peerId) == own # NoPeerId /\ own < peerId

\* mutant: the role guard at the top of sendLog is missing
sendLog_NoRoleGuard(role, conns, logData) ==
    [p \in PeerIds |->
        IF /\ p \in DOMAIN conns
           /\ conns[p].role = "reader"
           /\ conns[p].isConnected
           /\ conns[p].dataChannel = "open"
        THEN <<JSONstringify(logData)>>
        ELSE <<>>]

\* mutant: the connection's role is not tested
sendLog_AnyRole(role, conns, logData) ==
    [p \in PeerIds |->
        IF /\ role = "appender"
           /\ p \in DOMAIN conns
           /\ conns[p].isConnected
           /\ conns[p].dataChannel = "open"
        THEN <<JSONstringify(logData)>>
        ELSE <<>>]

\* WebRTCManager.sendLog: what one call hands to each peer's data channel
sendLog(role, conns, logData) ==
    [p \in PeerIds |->
        IF /\ role = "appender"
           /\ p \in DOMAIN conns
           /\ conns[p].role = "reader"
           /\ conns[p].isConnected
           /\ conns[p].dataChannel # "none"
           /\ conns[p].dataChannel = "open"
        THEN <<JSONstringify(logData)>>
        ELSE <<>>]

\* connection.ts onConnection handler: one sendLog call per buffered entry
RECURSIVE replayBuffered(_, _, _)
replayBuffered(role, conns, logs) ==
    IF logs = <<>> THEN NoSends
    ELSE LET h == sendLog(role, conns, Head(logs))
             t == replayBuffered(role, conns, Tail(logs))
         IN [p \in PeerIds |-> h[p] \o t[p]]

\* notifyConnectionChange(state, peerId, connected) with the replay handler of
\* connection.ts registered: effect on the buffer and on the data channels
NotifyReplay(conns, connected) ==
    IF activeManager /\ connected
    THEN /\ buffer' = getLogs_buffer(buffer, now)
         /\ sent' = replayBuffered(myRole, conns, getBufferedLogs(buffer, now))
         /\ delivery' = "replay"
    ELSE /\ buffer' = buffer
         /\ sent' = NoSends
         /\ delivery' = "none"

Note(peerId, connected) == [NoNotes EXCEPT ![peerId] = <<connected>>]

\* channel history: the last entry each channel carried after the sends `out`,
\* kept only for the peers that still have a connection in `conns`
LastOf(out, prev, conns) ==
    [p \in PeerIds |->
        IF p \notin DOMAIN conns THEN 0
        ELSE IF out[p] = <<>> THEN prev[p]
        ELSE out[p][Len(out[p])][2]]
FreshOf(prev, conns) == [p \in PeerIds |-> prev[p] /\ p \in DOMAIN conns]

\* handlePeerDisconnected: registry entry and RTC connection of peerId removed
handlePeerDisconnected_peers(reg, peerId) == RemoveKey(reg, peerId)
handlePeerDisconnected_conns(conns, peerId) == RemoveKey(conns, peerId)
handlePeerDisconnected_notes(conns, peerId) ==
    IF peerId \in DOMAIN conns THEN <<FALSE>> ELSE <<>>

\* cleanup(state)
cleanup ==
    /\ cleanupInterval' = FALSE
    /\ rtcConnections' = EmptyMap
    /\ peers' = EmptyMap
    /\ signalingWs' = "null"
    /\ myPeerId' = NoPeerId
    /\ myRole' = "null"

\* the two streams of a process, and of a child process
Streams == {"stdout", "stderr"}

\* stream.write(chunk, encodingOrCallback, callback)
Call(chunk, encodingOrCallback, callback) ==
    [chunk |-> chunk, encodingOrCallback |-> encodingOrCallback, callback |-> callback]

\* an event of the stream view: a write, a 'data' event, a call of the API or
\* a data channel event
Event(kind, stream, call, peerId) ==
    [kind |-> kind, stream |-> stream, call |-> call, peerId |-> peerId]
NoEvent == Event("none", "stdout", Call(<<>>, "undefined", "undefined"), NoPeerId)

\* the two observer registries of a manager
ObserverKinds == {"log", "connection"}

\* the two processes of the election view and the state each manager starts in
Sides == {"A", "B"}
Other(x) == IF x = "A" THEN "B" ELSE "A"
MgrInit ==
    [myPeerId |-> NoPeerId, myRole |-> "null", peers |-> EmptyMap,
     rtcConnections |-> EmptyMap, joinTimers |-> {}]

\* ------------------------------------------------------------------- Init
InitWith(roles) ==
    /\ now = 0
    /\ buffer = <<>>
    /\ isForwarding = FALSE
    /\ attached = FALSE
    /\ activeManager = FALSE
    /\ signalingWs = "null"
    /\ myPeerId = NoPeerId
    /\ myRole = "null"
    /\ peers = EmptyMap
    /\ rtcConnections = EmptyMap
    /\ cleanupInterval = FALSE
    /\ joinTimers = {}
    /\ peerRole = roles
    /\ nextId = 1
    /\ chanLast = [p \in PeerIds |-> 0]
    /\ chanFresh = [p \in PeerIds |-> FALSE]
    /\ sent = NoSends
    /\ notified = NoNotes
    /\ delivery = "none"
    /\ mgr = [x \in Sides |-> MgrInit]
    /\ connects = <<>>
    /\ wsHandle = 0
    /\ liveIntervals = 0
    /\ myPublicToken = "null"
    /\ myKeyHex = "null"
    /\ defaultFields = "undefined"
    /\ reconnectionAttempts = 0
    /\ outbox = {}
    /\ write = [s \in Streams |-> <<>>]
    /\ listeners = [s \in Streams |-> 0]
    /\ handles = <<>>
    /\ written = <<>>
    /\ submitted = <<>>
    /\ received = NoEvent
    /\ registry = [kind \in ObserverKinds |-> <<>>]
    /\ issued = {}
    /\ invoked = <<>>
    /\ moduleCalls = <<>>

\* ---------------------------------------------------- values of the parsers
\* A JavaScript string is the sequence of its tokens; `undefined` is a value
\* of its own. An object is the function from its field names to its values.
Undefined == <<"(undefined)">>
Fields == {"type", "message", "timestamp", "level", "msg", "time", "extra"}
NoEntry == [f \in Fields |-> Undefined]
NoInfo == [host |-> "", role |-> "", key |-> "", publicToken |-> "undefined"]
NoConnectionString ==
    [parses |-> FALSE, protocol |-> "", username |-> "", password |-> "",
     host |-> "", pathname |-> <<>>]
NoInput ==
    [fn |-> "none", connectionString |-> NoConnectionString, line |-> <<>>,
     defaultLevel |-> "info"]
NoOutput == [state |-> "pending", error |-> "none", info |-> NoInfo, entry |-> NoEntry]

\* no parser is being applied
NotParsing ==
    /\ parseInput = NoInput
    /\ parseOutput = NoOutput

\* a session whose two remote peers are readers
Init == InitWith([p \in PeerIds |-> "reader"]) /\ NotParsing

\* a session with one remote reader (peer 1) and one remote appender (peer 3)
InitMixed ==
    InitWith([p \in PeerIds |-> IF p = 1 THEN "reader" ELSE "appender"]) /\ NotParsing

\* ------------------------------------------------- time and the log buffer
Tick ==
    \E t \in Instants :
        /\ t > now
        /\ now' = t
        /\ sent' = NoSends
        /\ notified' = NoNotes
        /\ delivery' = "none"
        /\ UNCHANGED <<chanLast, chanFresh>>
        /\ UNCHANGED extVars
        /\ UNCHANGED <<buffer, isForwarding, attached, mgrVars,
                       peerRole, nextId>>

\* getBufferSize() (called by the CLI on child exit)
GetBufferSize ==
    /\ buffer' = size(buffer, now)
    /\ sent' = NoSends
    /\ notified' = NoNotes
    /\ delivery' = "none"
    /\ UNCHANGED <<chanLast, chanFresh>>
    /\ UNCHANGED extVars
    /\ UNCHANGED <<now, isForwarding, attached, mgrVars,
                   peerRole, nextId>>

\* mutant: an entry is buffered only when no channel took it
SendLogData_BufferUnsentOnly(logData) ==
    /\ sent' = IF activeManager /\ ~isForwarding
               THEN sendLog(myRole, rtcConnections, logData)
               ELSE NoSends
    /\ buffer' = IF ~isForwarding /\ sent' = NoSends
                 THEN addLog(buffer, logData, now)
                 ELSE buffer
    /\ isForwarding' = isForwarding
    /\ notified' = NoNotes
    /\ chanLast' = LastOf(sent', chanLast, rtcConnections)
    /\ chanFresh' = [p \in PeerIds |-> FALSE]
    /\ delivery' = "sendLogData"
    /\ UNCHANGED extVars
    /\ UNCHANGED <<now, attached, mgrVars, peerRole>>

\* sendLogData(logData)
SendLogData(logData) ==
    /\ IF isForwarding
       THEN /\ buffer' = buffer
            /\ sent' = NoSends
       ELSE /\ buffer' = addLog(buffer, logData, now)
            /\ sent' = IF activeManager
                       THEN sendLog(myRole, rtcConnections, logData)
                       ELSE NoSends
    /\ isForwarding' = isForwarding
    /\ notified' = NoNotes
    /\ delivery' = "sendLogData"
    /\ chanLast' = LastOf(sent', chanLast, rtcConnections)
    /\ chanFresh' = [p \in PeerIds |-> FALSE]
    /\ UNCHANGED extVars
    /\ UNCHANGED <<now, attached, mgrVars, peerRole>>

\* a line that passes the filters of an installed interception is submitted
SubmitLine ==
    /\ attached
    /\ ~isForwarding
    /\ nextId <= MaxLogs
    /\ nextId' = nextId + 1
    /\ SendLogData(nextId)

\* ------------------------------------------- connection.ts / manager.connect
\* forward()/forwardStreams(): await connect(connectionString), then install
Forward ==
    \E role \in Roles :
        /\ activeManager' = TRUE
        /\ IF isConnected
           THEN /\ attached' = TRUE
                /\ UNCHANGED <<myRole, signalingWs, cleanupInterval>>
           ELSE /\ myRole' = role
                /\ signalingWs' = "connecting"
                /\ cleanupInterval' = TRUE
                /\ attached' = attached
        /\ sent' = NoSends
        /\ notified' = NoNotes
        /\ delivery' = "none"
        /\ UNCHANGED extVars
        /\ UNCHANGED <<now, buffer, isForwarding, myPeerId, peers, rtcConnections,
                       joinTimers, peerRole, nextId, chanLast, chanFresh>>

WsOpen ==
    /\ signalingWs = "connecting"
    /\ signalingWs' = "open"
    /\ sent' = NoSends
    /\ notified' = NoNotes
    /\ delivery' = "none"
    /\ UNCHANGED <<chanLast, chanFresh>>
    /\ UNCHANGED extVars
    /\ UNCHANGED <<now, buffer, isForwarding, attached, activeManager,
                   myPeerId, myRole, peers, rtcConnections, cleanupInterval,
                   joinTimers, peerRole, nextId>>

\* 'close' event of the signaling socket
WsClose ==
    /\ signalingWs # "null"
    /\ cleanup
    /\ sent' = NoSends
    /\ notified' = NoNotes
    /\ delivery' = "none"
    /\ chanLast' = LastOf(NoSends, chanLast, EmptyMap)
    /\ chanFresh' = FreshOf(chanFresh, EmptyMap)
    /\ UNCHANGED extVars
    /\ UNCHANGED <<now, buffer, isForwarding, attached, activeManager,
                   joinTimers, peerRole, nextId>>

\* manager.disconnect()
Disconnect ==
    /\ activeManager
    /\ cleanup
    /\ sent' = NoSends
    /\ notified' = NoNotes
    /\ delivery' = "none"
    /\ chanLast' = LastOf(NoSends, chanLast, EmptyMap)
    /\ chanFresh' = FreshOf(chanFresh, EmptyMap)
    /\ UNCHANGED extVars
    /\ UNCHANGED <<now, buffer, isForwarding, attached, activeManager,
                   joinTimers, peerRole, nextId>>

\* ----------------------------------------------------- signaling messages
\* auth_success {peerId}
AuthSuccess ==
    \E id \in OwnIds :
        /\ signalingWs = "open"
        /\ myPeerId = NoPeerId
        /\ myPeerId' = id
        /\ attached' = TRUE
        /\ sent' = NoSends
        /\ notified' = NoNotes
        /\ delivery' = "none"
        /\ UNCHANGED <<chanLast, chanFresh>>
        /\ UNCHANGED extVars
        /\ UNCHANGED <<now, buffer, isForwarding, activeManager, signalingWs, myRole,
                       peers, rtcConnections, cleanupInterval, joinTimers, peerRole,
                       nextId>>

\* handlePeerList: the connections after the forEach over the snapshot
RECURSIVE handlePeerList(_, _, _)
handlePeerList(conns, list, todo) ==
    IF todo = {} THEN conns
    ELSE LET p == CHOOSE q \in todo : TRUE
             c == IF shouldConnectToPeer(myRole, list[p])
                  THEN initiatePeerConnection(conns, p, list[p],
                                              shouldBeInitiator(myPeerId, p))
                  ELSE conns
         IN handlePeerList(c, list, todo \ {p})

\* peer_list {peers}
PeerList ==
    \E S \in SUBSET PeerIds :
        LET list == [p \in S |-> peerRole[p]] IN
        /\ isConnected
        /\ peers' = list
        /\ rtcConnections' = handlePeerList(rtcConnections, list, S)
        /\ sent' = NoSends
        /\ notified' = NoNotes
        /\ delivery' = "none"
        /\ UNCHANGED <<chanLast, chanFresh>>
        /\ UNCHANGED extVars
        /\ UNCHANGED <<now, buffer, isForwarding, attached, activeManager, signalingWs, myPeerId, myRole, cleanupInterval,
                       joinTimers, peerRole, nextId>>

\* peer_joined {peerId, role}
PeerJoined ==
    \E p \in PeerIds :
        /\ isConnected
        /\ Cardinality(joinTimers \cup {<<p, peerRole[p]>>}) <= MaxJoinTimers
        /\ peers' = PutKey(peers, p, peerRole[p])
        /\ joinTimers' = IF shouldConnectToPeer(myRole, peerRole[p])
                         THEN joinTimers \cup {<<p, peerRole[p]>>}
                         ELSE joinTimers
        /\ sent' = NoSends
        /\ notified' = NoNotes
        /\ delivery' = "none"
        /\ UNCHANGED <<chanLast, chanFresh>>
        /\ UNCHANGED extVars
        /\ UNCHANGED <<now, buffer, isForwarding, attached, activeManager, signalingWs, myPeerId, myRole, rtcConnections,
                       cleanupInterval, peerRole, nextId>>

\* the setTimeout(..., 1000) callback of handlePeerJoined
JoinTimerFire ==
    \E t \in joinTimers :
        /\ joinTimers' = joinTimers \ {t}
        /\ rtcConnections' =
              IF t[1] \in DOMAIN rtcConnections THEN rtcConnections
              ELSE initiatePeerConnection(rtcConnections, t[1], t[2],
                                          shouldBeInitiator(myPeerId, t[1]))
        /\ sent' = NoSends
        /\ notified' = NoNotes
        /\ delivery' = "none"
        /\ UNCHANGED <<chanLast, chanFresh>>
        /\ UNCHANGED extVars
        /\ UNCHANGED <<now, buffer, isForwarding, attached, activeManager, signalingWs, myPeerId, myRole, peers,
                       cleanupInterval, peerRole, nextId>>

\* peer_disconnected {peerId}
PeerDisconnected ==
    \E p \in PeerIds :
        /\ isConnected
        /\ peers' = handlePeerDisconnected_peers(peers, p)
        /\ rtcConnections' = handlePeerDisconnected_conns(rtcConnections, p)
        /\ notified' = [NoNotes EXCEPT ![p] = handlePeerDisconnected_notes(rtcConnections, p)]
        /\ sent' = NoSends
        /\ delivery' = "none"
        /\ chanLast' = LastOf(NoSends, chanLast, rtcConnections')
        /\ chanFresh' = FreshOf(chanFresh, rtcConnections')
        /\ UNCHANGED extVars
        /\ UNCHANGED <<now, buffer, isForwarding, attached, activeManager, signalingWs, myPeerId, myRole, cleanupInterval,
                       joinTimers, peerRole, nextId>>

\* handleWebRTCOffer: the connection map after an offer from fromPeerId
handleWebRTCOffer(conns, reg, fromPeerId) ==
    IF fromPeerId \in DOMAIN conns THEN conns
    ELSE PutKey(conns, fromPeerId,
                NewConnection(IF fromPeerId \in DOMAIN reg THEN reg[fromPeerId]
                              ELSE "reader",
                              "none"))

\* webrtc_offer {fromPeerId, offer}
WebRTCOffer ==
    \E p \in PeerIds :
        /\ isConnected
        /\ rtcConnections' = handleWebRTCOffer(rtcConnections, peers, p)
        /\ sent' = NoSends
        /\ notified' = NoNotes
        /\ delivery' = "none"
        /\ UNCHANGED <<chanLast, chanFresh>>
        /\ UNCHANGED extVars
        /\ UNCHANGED <<now, buffer, isForwarding, attached, activeManager, signalingWs, myPeerId, myRole, peers,
                       cleanupInterval, joinTimers, peerRole, nextId>>

\* ------------------------------------------- peer-connection / channel events
\* peerConnection.onDataChannel: the remote side's channel arrives
OnDataChannel ==
    \E p \in DOMAIN rtcConnections :
        /\ rtcConnections[p].dataChannel = "none"
        /\ rtcConnections[p].pcState = "connected"
        /\ rtcConnections' = [rtcConnections EXCEPT ![p].dataChannel = "connecting"]
        /\ sent' = NoSends
        /\ notified' = NoNotes
        /\ delivery' = "none"
        /\ UNCHANGED <<chanLast, chanFresh>>
        /\ UNCHANGED extVars
        /\ UNCHANGED <<now, buffer, isForwarding, attached, activeManager, signalingWs, myPeerId, myRole, peers,
                       cleanupInterval, joinTimers, peerRole, nextId>>

\* dataChannel.onOpen
DataChannelOpen ==
    \E p \in DOMAIN rtcConnections :
        LET conns == [rtcConnections EXCEPT ![p].dataChannel = "open",
                                            ![p].isConnected = TRUE] IN
        /\ rtcConnections[p].dataChannel = "connecting"
        /\ rtcConnections[p].pcState = "connected"
        /\ rtcConnections' = conns
        /\ notified' = Note(p, TRUE)
        /\ NotifyReplay(conns, TRUE)
        /\ chanLast' = LastOf(sent', chanLast, conns)
        /\ chanFresh' = [chanFresh EXCEPT ![p] = TRUE]
        /\ UNCHANGED extVars
        /\ UNCHANGED <<now, isForwarding, attached, activeManager,
                       signalingWs, myPeerId, myRole, peers, cleanupInterval,
                       joinTimers, peerRole, nextId>>

\* dataChannel.onClosed
DataChannelClosed ==
    \E p \in DOMAIN rtcConnections :
        LET conns == [rtcConnections EXCEPT ![p].dataChannel = "closed",
                                            ![p].isConnected = FALSE] IN
        /\ rtcConnections[p].dataChannel \in {"connecting", "open"}
        /\ rtcConnections' = conns
        /\ notified' = Note(p, FALSE)
        /\ NotifyReplay(conns, FALSE)
        /\ chanLast' = LastOf(sent', chanLast, conns)
        /\ chanFresh' = chanFresh
        /\ UNCHANGED extVars
        /\ UNCHANGED <<now, isForwarding, attached, activeManager,
                       signalingWs, myPeerId, myRole, peers, cleanupInterval,
                       joinTimers, peerRole, nextId>>

\* state transitions the peer-connection reports while it is not closed locally
PcTransitions ==
    {<<"new", "connected">>, <<"new", "failed">>, <<"connected", "failed">>}

\* peerConnection.onStateChange(connectionState)
onStateChange(conn, connectionState) ==
    IF connectionState = "connected"
    THEN [conn EXCEPT !.isConnected = TRUE, !.pcState = connectionState]
    ELSE IF connectionState = "disconnected" \/ connectionState = "failed"
    THEN [conn EXCEPT !.isConnected = FALSE, !.pcState = connectionState]
    ELSE [conn EXCEPT !.pcState = connectionState]

PcStateChange ==
    \E p \in DOMAIN rtcConnections :
      \E tr \in PcTransitions :
        LET conns == [rtcConnections EXCEPT ![p] = onStateChange(@, tr[2])] IN
        /\ rtcConnections[p].pcState = tr[1]
        \* offer, answer and candidates travel over the signaling socket
        /\ tr[2] = "connected" => isConnected
        /\ rtcConnections' = conns
        /\ notified' = Note(p, tr[2] = "connected")
        /\ NotifyReplay(conns, tr[2] = "connected")
        /\ chanLast' = LastOf(sent', chanLast, conns)
        /\ chanFresh' = chanFresh
        /\ UNCHANGED extVars
        /\ UNCHANGED <<now, isForwarding, attached, activeManager,
                       signalingWs, myPeerId, myRole, peers, cleanupInterval,
                       joinTimers, peerRole, nextId>>

\* mutant: every connection that is not connected counts as stale
staleConnections_NotConnected(conns) ==
    {p \in DOMAIN conns : ~conns[p].isConnected}

\* cleanupStaleConnections: the peers whose peer-connection is closed or failed,
\* or whose state() call throws
staleConnections(conns) ==
    {p \in DOMAIN conns :
        \/ conns[p].pcState = "closed"
        \/ conns[p].pcState = "failed"
        \/ conns[p].pcState = "unreadable"}

\* cleanupStaleConnections(state): every stale connection is torn down
cleanupStaleConnections ==
    LET stale == staleConnections(rtcConnections) IN
    /\ peers' = [q \in DOMAIN peers \ stale |-> peers[q]]
    /\ rtcConnections' = [q \in DOMAIN rtcConnections \ stale |-> rtcConnections[q]]
    /\ notified' = [p \in PeerIds |-> IF p \in stale THEN <<FALSE>> ELSE <<>>]
    /\ sent' = NoSends
    /\ delivery' = "none"
    /\ chanLast' = LastOf(NoSends, chanLast, rtcConnections')
    /\ chanFresh' = FreshOf(chanFresh, rtcConnections')
    /\ UNCHANGED extVars
    /\ UNCHANGED <<now, buffer, isForwarding, attached, activeManager, signalingWs, myPeerId, myRole, cleanupInterval,
                   joinTimers, peerRole, nextId>>

\* the setInterval(..., 5000) callback of startCleanupInterval
SweepTick ==
    /\ cleanupInterval
    /\ cleanupStaleConnections

\* ------------------------------------------------------------ specification
Next ==
    \/ Tick
    \/ GetBufferSize
    \/ SubmitLine
    \/ Forward
    \/ WsOpen
    \/ WsClose
    \/ Disconnect
    \/ AuthSuccess
    \/ PeerList
    \/ PeerJoined
    \/ JoinTimerFire
    \/ PeerDisconnected
    \/ WebRTCOffer
    \/ OnDataChannel
    \/ DataChannelOpen
    \/ DataChannelClosed
    \/ PcStateChange
    \/ SweepTick

Spec == Init /\ [][Next]_vars

SpecMixed == InitMixed /\ [][Next]_vars

TypeOK ==
    /\ now \in Instants
    /\ Len(buffer) <= MaxLogs
    /\ isForwarding = FALSE
    /\ myRole \in Roles \cup {"null"}
    /\ DOMAIN rtcConnections \subseteq PeerIds
    /\ DOMAIN peers \subseteq PeerIds

\* ============================================================ election view
\* Two processes A and B run the manager's peer handling against one server.
\* The server gives a process an id no other process holds or still refers to.
ElectIds == {1, 2, 3}

deliveryVars == <<now, buffer, isForwarding, attached, activeManager, signalingWs,
                  myPeerId, myRole, peers, rtcConnections, cleanupInterval,
                  joinTimers, peerRole, nextId, chanLast, chanFresh, sent,
                  notified, delivery>>

lifeVars == <<connects, wsHandle, liveIntervals, myPublicToken, myKeyHex,
              defaultFields, reconnectionAttempts, outbox>>

\* the ids a manager state refers to
Mentions(m) ==
    DOMAIN m.peers \cup DOMAIN m.rtcConnections \cup {t[1] : t \in m.joinTimers}

\* manager.connect(connectionString): the role of the connection string is stored
ElectConnect(x) ==
    \E role \in Roles :
        /\ mgr[x].myRole = "null"
        /\ mgr' = [mgr EXCEPT ![x].myRole = role]
        /\ UNCHANGED <<deliveryVars, lifeVars, ioVars>>

\* auth_success {peerId}
ElectAuthSuccess(x) ==
    \E id \in ElectIds :
        /\ mgr[x].myRole # "null"
        /\ mgr[x].myPeerId = NoPeerId
        /\ id # mgr[Other(x)].myPeerId
        /\ id \notin Mentions(mgr[Other(x)])
        /\ mgr' = [mgr EXCEPT ![x].myPeerId = id]
        /\ UNCHANGED <<deliveryVars, lifeVars, ioVars>>

\* both processes are authenticated: the server tells each of the other
BothPresent == mgr["A"].myPeerId # NoPeerId /\ mgr["B"].myPeerId # NoPeerId

\* peer_list {peers}: the snapshot names the other process
ElectPeerList(x) ==
    LET m == mgr[x]
        o == mgr[Other(x)]
    IN  /\ BothPresent
        /\ mgr' = [mgr EXCEPT
              ![x].peers = PutKey(EmptyMap, o.myPeerId, o.myRole),
              ![x].rtcConnections =
                  IF shouldConnectToPeer(m.myRole, o.myRole)
                  THEN initiatePeerConnection(m.rtcConnections, o.myPeerId, o.myRole,
                                              shouldBeInitiator(m.myPeerId, o.myPeerId))
                  ELSE m.rtcConnections]
        /\ UNCHANGED <<deliveryVars, lifeVars, ioVars>>

\* peer_joined {peerId, role}: the other process joined
ElectPeerJoined(x) ==
    LET m == mgr[x]
        o == mgr[Other(x)]
    IN  /\ BothPresent
        /\ Cardinality(m.joinTimers \cup {<<o.myPeerId, o.myRole>>}) <= MaxJoinTimers
        /\ mgr' = [mgr EXCEPT
              ![x].peers = PutKey(m.peers, o.myPeerId, o.myRole),
              ![x].joinTimers =
                  IF shouldConnectToPeer(m.myRole, o.myRole)
                  THEN m.joinTimers \cup {<<o.myPeerId, o.myRole>>}
                  ELSE m.joinTimers]
        /\ UNCHANGED <<deliveryVars, lifeVars, ioVars>>

\* the setTimeout(..., 1000) callback of handlePeerJoined
ElectJoinTimerFire(x) ==
    \E t \in mgr[x].joinTimers :
        LET m == mgr[x] IN
        /\ mgr' = [mgr EXCEPT
              ![x].joinTimers = m.joinTimers \ {t},
              ![x].rtcConnections =
                  IF t[1] \in DOMAIN m.rtcConnections THEN m.rtcConnections
                  ELSE initiatePeerConnection(m.rtcConnections, t[1], t[2],
                                              shouldBeInitiator(m.myPeerId, t[1]))]
        /\ UNCHANGED <<deliveryVars, lifeVars, ioVars>>

\* peer_disconnected {peerId}: an id the other process held earlier is gone
ElectPeerDisconnected(x) ==
    \E p \in DOMAIN mgr[x].peers \cup DOMAIN mgr[x].rtcConnections :
        /\ mgr[x].myPeerId # NoPeerId
        /\ p # mgr[Other(x)].myPeerId
        /\ mgr' = [mgr EXCEPT
              ![x].peers = handlePeerDisconnected_peers(@, p),
              ![x].rtcConnections = handlePeerDisconnected_conns(@, p)]
        /\ UNCHANGED <<deliveryVars, lifeVars, ioVars>>

\* the process created the data channel of its connection to peerId
CreatedDataChannel(m, peerId) ==
    /\ peerId \in DOMAIN m.rtcConnections
    /\ m.rtcConnections[peerId].dataChannel # "none"

\* webrtc_offer {fromPeerId}: the other process drives an offer to this one
ElectWebRTCOffer(x) ==
    LET m == mgr[x]
        o == mgr[Other(x)]
    IN  /\ BothPresent
        /\ CreatedDataChannel(o, m.myPeerId)
        /\ mgr' = [mgr EXCEPT
              ![x].rtcConnections = handleWebRTCOffer(m.rtcConnections, m.peers, o.myPeerId)]
        /\ UNCHANGED <<deliveryVars, lifeVars, ioVars>>

\* manager.disconnect(), or the close event of the signaling socket: cleanup(state)
ElectCleanup(x) ==
    /\ mgr[x].myRole # "null"
    /\ mgr' = [mgr EXCEPT ![x].rtcConnections = EmptyMap,
                          ![x].peers = EmptyMap,
                          ![x].myPeerId = NoPeerId,
                          ![x].myRole = "null"]
    /\ UNCHANGED <<deliveryVars, lifeVars, ioVars>>

ElectNext ==
    \/ \E x \in Sides : ElectConnect(x)
    \/ \E x \in Sides : ElectAuthSuccess(x)
    \/ \E x \in Sides : ElectPeerList(x)
    \/ \E x \in Sides : ElectPeerJoined(x)
    \/ \E x \in Sides : ElectJoinTimerFire(x)
    \/ \E x \in Sides : ElectPeerDisconnected(x)
    \/ \E x \in Sides : ElectWebRTCOffer(x)
    \/ \E x \in Sides : ElectCleanup(x)

SpecElect == Init /\ [][ElectNext]_vars

\* =========================================================== handshake view
\* The manager used directly: every connect() call with its promise and its
\* socket, the messages handed to the sockets, and the armed interval timers.
MaxConnects == 2

\* the session keys and the role and token of the well-formed strings
Keys == {"a1b2", "c3d4"}

\* connection strings as new URL(...) splits them (parses: it accepts the
\* text); the pathname is the sequence of its characters, with the token as one
ConnectionStrings ==
    { [parses |-> TRUE, protocol |-> "openpull:", username |-> "appender", password |-> "a1b2",
       host |-> "host", pathname |-> <<"/", "tok">>],
      [parses |-> TRUE, protocol |-> "openpull:", username |-> "reader", password |-> "c3d4",
       host |-> "host", pathname |-> <<"/">>],
      [parses |-> TRUE, protocol |-> "https:", username |-> "appender", password |-> "a1b2",
       host |-> "host", pathname |-> <<"/", "tok">>],
      [parses |-> TRUE, protocol |-> "openpull:", username |-> "writer", password |-> "a1b2",
       host |-> "host", pathname |-> <<"/", "tok">>],
      [parses |-> TRUE, protocol |-> "openpull:", username |-> "appender", password |-> "",
       host |-> "host", pathname |-> <<>>],
      [parses |-> FALSE, protocol |-> "", username |-> "", password |-> "",
       host |-> "", pathname |-> <<>>] }

\* the defaultFields argument: absent, {} or an object with a field
DefaultFieldsArgs == {"undefined", "empty", "fields"}

\* mutant: the role is not checked against the two role names
parseConnectionString_AnyRole(connectionString) ==
    IF ~connectionString.parses
    THEN [ok |-> FALSE, error |-> "Invalid URL"]
    ELSE IF connectionString.protocol # "openpull:"
    THEN [ok |-> FALSE, error |-> "Invalid protocol"]
    ELSE IF \/ connectionString.username = ""
            \/ connectionString.password = ""
            \/ connectionString.host = ""
    THEN [ok |-> FALSE, error |-> "Invalid connection string format"]
    ELSE [ok |-> TRUE,
          host |-> connectionString.host,
          role |-> connectionString.username,
          key |-> connectionString.password,
          publicToken |-> IF Len(connectionString.pathname) > 1
                          THEN connectionString.pathname[2]
                          ELSE "undefined"]

\* parseConnectionString(connectionString)
parseConnectionString(connectionString) ==
    IF ~connectionString.parses
    THEN [ok |-> FALSE, error |-> "Invalid URL"]
    ELSE IF connectionString.protocol # "openpull:"
    THEN [ok |-> FALSE, error |-> "Invalid protocol"]
    ELSE IF \/ connectionString.username = ""
            \/ connectionString.password = ""
            \/ connectionString.host = ""
    THEN [ok |-> FALSE, error |-> "Invalid connection string format"]
    ELSE IF connectionString.username \notin Roles
    THEN [ok |-> FALSE, error |-> "Invalid role"]
    ELSE [ok |-> TRUE,
          host |-> connectionString.host,
          role |-> connectionString.username,
          key |-> connectionString.password,
          publicToken |-> IF Len(connectionString.pathname) > 1
                          THEN connectionString.pathname[2]
                          ELSE "undefined"]

\* the URL the socket is opened with
wsUrl(host, publicToken) ==
    IF publicToken # "undefined" THEN <<"wss://", host, "/", publicToken>>
    ELSE <<"wss://", host, "/">>

\* Buffer.from(keyHex, 'hex')
BufferFromHex(keyHex) == <<"bytes", keyHex>>

\* a value on the wire: readable text, or a digest from which neither the key
\* nor the signed text can be read
Text(str) == [kind |-> "text", text |-> str, of |-> <<>>]

\* createHmac('sha256', key).update(payload).digest('hex')
createHmac(key, payload) == [kind |-> "digest", text |-> "hmac-sha256", of |-> <<key, payload>>]

\* a signaling message with the fields the manager fills in
Message(type) ==
    [type |-> type, role |-> "absent", proof |-> Text("absent"),
     defaultFields |-> "absent", targetPeerId |-> NoPeerId]

\* the signed text of an auth proof
AuthPayload(publicToken, role, nonce, timestamp) ==
    <<"openpull-auth", "v1", publicToken, role, nonce, timestamp>>

\* mutant: the key goes out in the place of the proof
authMessage_KeyAsProof(role, publicToken, keyHex, fields, nonce, timestamp) ==
    [Message("auth") EXCEPT
        !.role = role,
        !.proof = Text(keyHex),
        !.defaultFields = IF fields = "fields" THEN fields ELSE "absent"]

\* the auth message built on auth_challenge {nonce, timestamp}
authMessage(role, publicToken, keyHex, fields, nonce, timestamp) ==
    [Message("auth") EXCEPT
        !.role = role,
        !.proof = createHmac(BufferFromHex(keyHex),
                             AuthPayload(publicToken, role, nonce, timestamp)),
        !.defaultFields = IF fields = "fields" THEN fields ELSE "absent"]

\* sendMessage(state, message): handed to the socket state.signalingWs holds
\* when that socket is open
sendMessage(socks, handle, out, message) ==
    IF handle # 0 /\ socks[handle].ws = "open"
    THEN out \cup {[to |-> handle, message |-> message]}
    ELSE out

\* mutant: a later resolve or reject replaces the outcome
Settle_Overwrite(c, outcome, reason) ==
    [c EXCEPT !.promise = outcome, !.reason = reason]

\* resolve(...) or reject(...) of the promise of a connect() call
Settle(c, outcome, reason) ==
    IF c.promise = "pending"
    THEN [c EXCEPT !.promise = outcome, !.reason = reason]
    ELSE c

\* readyState of the socket state.signalingWs holds
SocketState(socks, handle) == IF handle = 0 THEN "null" ELSE socks[handle].ws

\* the variables the handshake view leaves alone
lifeFrame == <<now, buffer, isForwarding, attached, activeManager, joinTimers,
               peerRole, nextId, chanLast, chanFresh, sent, notified, delivery, mgr,
               ioVars>>

\* what the server sends and when
Timestamps == {17}
ServerErrors == {"unauthorized"}

\* the record of a connect() call: its argument, its promise, its socket and
\* the server's end of that socket
ConnectCall(connectionString, promise, reason, ws, url) ==
    [input |-> connectionString, promise |-> promise, reason |-> reason,
     ws |-> ws, url |-> url, server |-> "idle", authed |-> FALSE]

\* manager.connect(connectionString, defaultFields): what it assigns
managerConnect(connectionString, fields) ==
    LET parsed == parseConnectionString(connectionString) IN
    /\ Len(connects) < MaxConnects
    /\ IF ~parsed.ok
       THEN /\ connects' = Append(connects,
                   ConnectCall(connectionString, "rejected", parsed.error, "none", <<>>))
            /\ UNCHANGED <<wsHandle, liveIntervals, myPublicToken, myKeyHex,
                           defaultFields, signalingWs, myRole, cleanupInterval>>
       ELSE /\ myRole' = parsed.role
            /\ myPublicToken' = IF parsed.publicToken = "undefined" THEN "null"
                                ELSE parsed.publicToken
            /\ myKeyHex' = parsed.key
            /\ defaultFields' = fields
            /\ connects' = Append(connects,
                   ConnectCall(connectionString, "pending", "none", "connecting",
                               wsUrl(parsed.host, parsed.publicToken)))
            /\ wsHandle' = Len(connects) + 1
            /\ signalingWs' = "connecting"
            /\ cleanupInterval' = TRUE
            /\ liveIntervals' = liveIntervals + 1

\* mutant: the fields are stored before the connection string is parsed
connect_StoreBeforeParse(connectionString, fields) ==
    LET parsed == parseConnectionString(connectionString) IN
    /\ Len(connects) < MaxConnects
    /\ myRole' = connectionString.username
    /\ myKeyHex' = connectionString.password
    /\ defaultFields' = fields
    /\ IF ~parsed.ok
       THEN /\ connects' = Append(connects,
                   ConnectCall(connectionString, "rejected", parsed.error, "none", <<>>))
            /\ UNCHANGED <<wsHandle, liveIntervals, myPublicToken, signalingWs,
                           cleanupInterval>>
       ELSE /\ myPublicToken' = IF parsed.publicToken = "undefined" THEN "null"
                                ELSE parsed.publicToken
            /\ connects' = Append(connects,
                   ConnectCall(connectionString, "pending", "none", "connecting",
                               wsUrl(parsed.host, parsed.publicToken)))
            /\ wsHandle' = Len(connects) + 1
            /\ signalingWs' = "connecting"
            /\ cleanupInterval' = TRUE
            /\ liveIntervals' = liveIntervals + 1
    /\ UNCHANGED <<myPeerId, peers, rtcConnections, reconnectionAttempts, outbox, lifeFrame>>

\* manager.connect(connectionString, defaultFields)
connect(connectionString, fields) ==
    /\ managerConnect(connectionString, fields)
    /\ UNCHANGED <<myPeerId, peers, rtcConnections, reconnectionAttempts, outbox, lifeFrame>>

\* 'open' event of the socket of call k
OnOpen(k) ==
    /\ connects[k].ws = "connecting"
    /\ connects' = [connects EXCEPT ![k].ws = "open"]
    /\ signalingWs' = SocketState(connects', wsHandle)
    /\ UNCHANGED <<wsHandle, liveIntervals, myPublicToken, myKeyHex, defaultFields,
                   reconnectionAttempts, outbox, myPeerId, myRole, peers,
                   rtcConnections, cleanupInterval, lifeFrame>>

\* the auth message the server accepts on the socket of call k
ExpectedAuth(k, timestamp) ==
    LET parsed == parseConnectionString(connects[k].input) IN
    authMessage(parsed.role, parsed.publicToken, parsed.key, "undefined", k, timestamp)

\* auth_challenge {nonce, timestamp} on the socket of call k; the nonce is k
OnMessageAuthChallenge(k) ==
    \E timestamp \in Timestamps :
        LET out == IF myRole = "null" \/ myPublicToken = "null" \/ myKeyHex = "null"
                   THEN outbox
                   ELSE sendMessage(connects, wsHandle, outbox,
                                    authMessage(myRole, myPublicToken, myKeyHex,
                                                defaultFields, k, timestamp))
            verified == \E m \in out \ outbox :
                            /\ m.to = k
                            /\ m.message.role = ExpectedAuth(k, timestamp).role
                            /\ m.message.proof = ExpectedAuth(k, timestamp).proof
        IN  /\ connects[k].ws = "open"
            /\ connects[k].server = "idle"
            /\ outbox' = out
            /\ connects' = [connects EXCEPT
                  ![k].server = IF verified THEN "verified" ELSE "challenged"]
            /\ UNCHANGED <<wsHandle, liveIntervals, myPublicToken, myKeyHex,
                           defaultFields, reconnectionAttempts, signalingWs, myPeerId,
                           myRole, peers, rtcConnections, cleanupInterval, lifeFrame>>

\* auth_success {peerId} on the socket of call k
OnMessageAuthSuccess(k) ==
    \E id \in OwnIds :
        /\ connects[k].ws = "open"
        /\ connects[k].server = "verified"
        /\ myPeerId' = id
        /\ outbox' = sendMessage(connects, wsHandle, outbox, Message("peer_discovery"))
        /\ connects' = [connects EXCEPT
              ![k] = Settle([@ EXCEPT !.server = "accepted", !.authed = TRUE],
                            "resolved", "none")]
        /\ UNCHANGED <<wsHandle, liveIntervals, myPublicToken, myKeyHex, defaultFields,
                       reconnectionAttempts, signalingWs, myRole, peers,
                       rtcConnections, cleanupInterval, lifeFrame>>

\* error {message} on the socket of call k
OnMessageError(k) ==
    \E message \in ServerErrors :
        /\ connects[k].ws = "open"
        /\ connects' = [connects EXCEPT ![k] = Settle(@, "rejected", message)]
        /\ UNCHANGED <<wsHandle, liveIntervals, myPublicToken, myKeyHex, defaultFields,
                       reconnectionAttempts, outbox, signalingWs, myPeerId, myRole,
                       peers, rtcConnections, cleanupInterval, lifeFrame>>

\* a message JSON.parse cannot decode on the socket of call k
OnMessageUndecodable(k) ==
    /\ connects[k].ws = "open"
    /\ connects' = [connects EXCEPT
          ![k] = Settle(@, "rejected", "Failed to parse signaling message")]
    /\ UNCHANGED <<wsHandle, liveIntervals, myPublicToken, myKeyHex, defaultFields,
                   reconnectionAttempts, outbox, signalingWs, myPeerId, myRole,
                   peers, rtcConnections, cleanupInterval, lifeFrame>>

\* 'error' event of the socket of call k; the socket then closes
OnError(k) ==
    /\ connects[k].ws \in {"connecting", "open", "closing"}
    /\ connects' = [connects EXCEPT
          ![k] = Settle([@ EXCEPT !.ws = "closing"], "rejected",
                        "Signaling connection failed")]
    /\ signalingWs' = SocketState(connects', wsHandle)
    /\ UNCHANGED <<wsHandle, liveIntervals, myPublicToken, myKeyHex, defaultFields,
                   reconnectionAttempts, outbox, myPeerId, myRole, peers,
                   rtcConnections, cleanupInterval, lifeFrame>>

\* state.signalingWs.close() in cleanup: the socket the handle holds starts closing
closeSocket(socks, handle) ==
    IF handle # 0 /\ socks[handle].ws \in {"connecting", "open"}
    THEN [socks EXCEPT ![handle].ws = "closing"]
    ELSE socks

\* clearInterval in cleanup: the timer the handle holds is disarmed
clearInterval(armed, handleSet) == IF handleSet THEN armed - 1 ELSE armed

\* mutant: the close handler counts an attempt and opens a socket again
OnClose_Reconnect(k) ==
    /\ connects[k].ws \in {"connecting", "open", "closing"}
    /\ cleanup
    /\ liveIntervals' = clearInterval(liveIntervals, cleanupInterval)
    /\ connects' = IF Len(connects) < MaxConnects
                   THEN Append(closeSocket([connects EXCEPT ![k].ws = "closed"], wsHandle),
                               ConnectCall(connects[k].input, "pending", "none",
                                           "connecting", connects[k].url))
                   ELSE closeSocket([connects EXCEPT ![k].ws = "closed"], wsHandle)
    /\ wsHandle' = 0
    /\ reconnectionAttempts' = reconnectionAttempts + 1
    /\ UNCHANGED <<myPublicToken, myKeyHex, defaultFields, outbox, lifeFrame>>

\* 'close' event of the socket of call k: cleanup(state)
OnClose(k) ==
    /\ connects[k].ws \in {"connecting", "open", "closing"}
    /\ cleanup
    /\ liveIntervals' = clearInterval(liveIntervals, cleanupInterval)
    /\ connects' = closeSocket([connects EXCEPT ![k].ws = "closed"], wsHandle)
    /\ wsHandle' = 0
    /\ UNCHANGED <<myPublicToken, myKeyHex, defaultFields, reconnectionAttempts,
                   outbox, lifeFrame>>

\* manager.disconnect(): cleanup(state)
disconnect ==
    /\ cleanup
    /\ liveIntervals' = clearInterval(liveIntervals, cleanupInterval)
    /\ connects' = closeSocket(connects, wsHandle)
    /\ wsHandle' = 0
    /\ UNCHANGED <<myPublicToken, myKeyHex, defaultFields, reconnectionAttempts,
                   outbox, lifeFrame>>

\* onLocalDescription / onLocalCandidate of the peer-connection to peerId; the
\* description is an offer when this side created the data channel
OnLocalDescription(peerId) ==
    \E type \in {"description", "candidate"} :
        /\ peerId \in DOMAIN rtcConnections
        /\ isConnected
        /\ outbox' = sendMessage(connects, wsHandle, outbox,
                                 [Message(IF type = "candidate" THEN "webrtc_ice_candidate"
                                          ELSE IF rtcConnections[peerId].dataChannel # "none"
                                          THEN "webrtc_offer"
                                          ELSE "webrtc_answer")
                                     EXCEPT !.targetPeerId = peerId])
        /\ UNCHANGED <<connects, wsHandle, liveIntervals, myPublicToken, myKeyHex,
                       defaultFields, reconnectionAttempts, signalingWs, myPeerId,
                       myRole, peers, rtcConnections, cleanupInterval, lifeFrame>>

\* a callback of an armed interval timer
IntervalFire ==
    /\ liveIntervals > 0
    /\ cleanupStaleConnections

LifeNext ==
    \/ \E connectionString \in ConnectionStrings, fields \in DefaultFieldsArgs :
          connect(connectionString, fields)
    \/ \E k \in 1..Len(connects) : OnOpen(k)
    \/ \E k \in 1..Len(connects) : OnMessageAuthChallenge(k)
    \/ \E k \in 1..Len(connects) : OnMessageAuthSuccess(k)
    \/ \E k \in 1..Len(connects) : OnMessageError(k)
    \/ \E k \in 1..Len(connects) : OnMessageUndecodable(k)
    \/ \E k \in 1..Len(connects) : OnError(k)
    \/ \E k \in 1..Len(connects) : OnClose(k)
    \/ disconnect
    \/ PeerList
    \/ IntervalFire

SpecLife == Init /\ [][LifeNext]_vars

\* the same with a server, a network and an event loop that keep running: while
\* some callback can run, one eventually does
SpecLifeFair == Init /\ [][LifeNext]_vars /\ WF_vars(LifeNext)

\* the signaling traffic of sessions opened with well-formed connection strings
SignalNext ==
    \/ \E connectionString \in ConnectionStrings, fields \in DefaultFieldsArgs :
          /\ parseConnectionString(connectionString).ok
          /\ connect(connectionString, fields)
    \/ \E k \in 1..Len(connects) : OnOpen(k)
    \/ \E k \in 1..Len(connects) : OnMessageAuthChallenge(k)
    \/ \E k \in 1..Len(connects) : OnMessageAuthSuccess(k)
    \/ \E k \in 1..Len(connects) : OnClose(k)
    \/ disconnect
    \/ PeerList
    \/ \E peerId \in PeerIds : OnLocalDescription(peerId)

SpecSignal == Init /\ [][SignalNext]_vars

\* ============================================================== module view
\* connect(connectionString) of connection.ts in front of the manager
moduleFrame == <<now, buffer, isForwarding, attached, joinTimers, peerRole, nextId,
                 chanLast, chanFresh, sent, notified, delivery, mgr, parseInput,
                 parseOutput, streamVars, issued, invoked>>

ModuleCall(connectionString, reused, connectedTo) ==
    [input |-> connectionString, reused |-> reused, connectedTo |-> connectedTo]

\* connect(connectionString)
moduleConnect(connectionString) ==
    /\ Len(moduleCalls) < MaxConnects
    /\ activeManager' = TRUE
    /\ registry' = IF activeManager THEN registry
                   ELSE [registry EXCEPT !["connection"] = Append(@, "replay")]
    /\ IF isConnected
       THEN /\ moduleCalls' = Append(moduleCalls,
                   ModuleCall(connectionString, TRUE, connects[wsHandle].input))
            /\ UNCHANGED <<lifeVars, signalingWs, myRole, cleanupInterval>>
       ELSE /\ managerConnect(connectionString, "undefined")
            /\ moduleCalls' = Append(moduleCalls,
                   ModuleCall(connectionString, FALSE, NoConnectionString))
            /\ UNCHANGED <<reconnectionAttempts, outbox>>
    /\ UNCHANGED <<myPeerId, peers, rtcConnections, moduleFrame>>

ModuleNext ==
    \/ \E connectionString \in ConnectionStrings : moduleConnect(connectionString)
    \/ \E k \in 1..Len(connects) : OnOpen(k)
    \/ \E k \in 1..Len(connects) : OnMessageAuthChallenge(k)
    \/ \E k \in 1..Len(connects) : OnMessageAuthSuccess(k)
    \/ \E k \in 1..Len(connects) : OnClose(k)

SpecModule == Init /\ [][ModuleNext]_vars

\* ============================================================= parsing view
\* The two parsers applied to one argument each.
Levels == {"info", "error", "warning", "debug", "trace"}
Whitespace == {" ", "\n"}

\* String.prototype.trim()
RECURSIVE trimStart(_)
trimStart(str) ==
    IF str # <<>> /\ Head(str) \in Whitespace THEN trimStart(Tail(str)) ELSE str

RECURSIVE trimEnd(_)
trimEnd(str) ==
    IF str # <<>> /\ str[Len(str)] \in Whitespace
    THEN trimEnd(SubSeq(str, 1, Len(str) - 1))
    ELSE str

trim(str) == trimEnd(trimStart(str))

\* the string value of a JSON string token
Str(token) == IF token = "" THEN <<>> ELSE <<token>>

\* JSON.parse(text) accepts: one object, written { key value key value ... }
JSONparses(text) ==
    /\ Len(text) >= 2
    /\ text[1] = "{"
    /\ text[Len(text)] = "}"
    /\ (Len(text) - 2) % 2 = 0
    /\ \A i \in 2..(Len(text) - 1) : text[i] \notin {"{", "}"} \cup Whitespace

\* JSON.parse(text): the object of an accepted text (a repeated key keeps its
\* last value)
JSONparse(text) ==
    [f \in Fields |->
        LET at == {i \in 2..(Len(text) - 1) : i % 2 = 0 /\ text[i] = f} IN
        IF at = {} THEN Undefined
        ELSE Str(text[(CHOOSE i \in at : \A j \in at : j <= i) + 1])]

\* new Date().toISOString()
toISOString(t) == <<"T", ToString(t)>>

Entry(type, message, timestamp) ==
    [f \in Fields |->
        IF f = "type" THEN type
        ELSE IF f = "message" THEN message
        ELSE IF f = "timestamp" THEN timestamp
        ELSE Undefined]

\* a || b and a ?? b on these values
Truthy(v) == v # Undefined /\ v # <<>>
OrElse(a, b) == IF Truthy(a) THEN a ELSE b
Coalesce(a, b) == IF a # Undefined THEN a ELSE b

\* parseLogLine(line, defaultLevel) at time t. A text JSON.parse accepts as a
\* number, a string or an array has none of the fields read here, and null
\* makes the field access throw inside the try: all give the plain-text entry.
parseLogLine(line, defaultLevel, t) ==
    LET trimmedLine == trim(line) IN
    IF trimmedLine = <<>>
    THEN Entry(<<defaultLevel>>, <<>>, toISOString(t))
    ELSE IF JSONparses(trimmedLine)
    THEN LET parsed == JSONparse(trimmedLine)
             rawType == Coalesce(parsed["level"], Coalesce(parsed["type"], <<defaultLevel>>))
             normalizedType == IF rawType \in {<<l>> : l \in Levels}
                               THEN rawType ELSE <<defaultLevel>>
             literal == Entry(normalizedType,
                              OrElse(parsed["message"], OrElse(parsed["msg"], trimmedLine)),
                              OrElse(parsed["timestamp"],
                                     OrElse(parsed["time"], toISOString(t))))
         IN  \* ...parsed is spread last: its fields replace the three above
             [f \in Fields |-> IF parsed[f] # Undefined THEN parsed[f] ELSE literal[f]]
    ELSE Entry(<<defaultLevel>>, trimmedLine, toISOString(t))

\* --- the arguments
\* connection strings as new URL(...) splits them; a URL with credentials has
\* a host
ParsedUrls ==
    { u \in [parses : {TRUE},
             protocol : {"openpull:", "https:"},
             username : {"", "appender", "reader", "writer"},
             password : {"", "a1b2"},
             host : {"", "host", "host:3000"},
             pathname : {<<>>, <<"/">>, <<"/", "tok">>}] :
        u.host = "" => (u.username = "" /\ u.password = "") }

\* a field of a JSON line: absent, or present with one of the values
Absent == "(absent)"
Member(key, value) == IF value = Absent THEN <<>> ELSE <<key, value>>

JSONLines ==
    { <<"{">> \o Member("level", level) \o Member("type", type)
             \o Member("message", message) \o Member("msg", msg)
             \o Member("timestamp", timestamp) \o Member("time", time)
             \o Member("extra", extra) \o <<"}">> :
        level \in {Absent, "error", "fatal"},
        type \in {Absent, "info", "debug", "custom"},
        message \in {Absent, "", "hello"},
        msg \in {Absent, "hi"},
        timestamp \in {Absent, "t1"},
        time \in {Absent, "t0"},
        extra \in {Absent, "v"} }

TextLines == { <<>>, <<" ">>, <<"plain">>, <<" ", "plain", "text", "\n">>,
               <<"{", "level", "error">> }

LineInputs ==
    JSONLines \cup TextLines \cup { <<" ">> \o l \o <<"\n">> : l \in JSONLines }

ParseInputs ==
    { [fn |-> "parseConnectionString", connectionString |-> u, line |-> <<>>,
       defaultLevel |-> "info"] : u \in ParsedUrls \cup {NoConnectionString} }
    \cup
    { [fn |-> "parseLogLine", connectionString |-> NoConnectionString, line |-> l,
       defaultLevel |-> d] : l \in LineInputs, d \in {"info", "error"} }

InitParse ==
    /\ InitWith([p \in PeerIds |-> "reader"])
    /\ parseInput \in ParseInputs
    /\ parseOutput = NoOutput

\* --- the applications
ApplyParseConnectionString ==
    LET parsed == parseConnectionString(parseInput.connectionString) IN
    /\ parseInput.fn = "parseConnectionString"
    /\ parseOutput.state = "pending"
    /\ parseOutput' =
          IF parsed.ok
          THEN [NoOutput EXCEPT !.state = "returned",
                                !.info = [host |-> parsed.host, role |-> parsed.role,
                                          key |-> parsed.key,
                                          publicToken |-> parsed.publicToken]]
          ELSE [NoOutput EXCEPT !.state = "threw", !.error = parsed.error]
    /\ UNCHANGED <<parseInput, streamVars, observerVars, moduleCalls, deliveryVars,
                   lifeVars, mgr>>

ApplyParseLogLine ==
    /\ parseInput.fn = "parseLogLine"
    /\ parseOutput.state = "pending"
    /\ parseOutput' =
          [NoOutput EXCEPT !.state = "returned",
                           !.entry = parseLogLine(parseInput.line,
                                                  parseInput.defaultLevel, now)]
    /\ UNCHANGED <<parseInput, streamVars, observerVars, moduleCalls, deliveryVars,
                   lifeVars, mgr>>

ParseNext ==
    \/ ApplyParseConnectionString
    \/ ApplyParseLogLine

SpecParse == InitParse /\ [][ParseNext]_vars

\* ============================================================== stream view
\* forward() and forwardStreams() of one process: writes to its own streams,
\* 'data' events of a child's streams, and the delivery they start.
MaxForwards == 2
MaxBuffered == 2

\* the severity forward() and forwardStreams() parse a stream's text with
DefaultLevel(stream) == IF stream = "stdout" THEN "info" ELSE "error"

\* str.includes(marker)
includes(str, marker) == \E i \in 1..Len(str) : str[i] = marker

\* what the application writes: chunks of one line and of two lines
Chunks ==
    { <<"plain", "\n">>,
      <<"\n">>,
      <<"[OpenPull", "]", "note", "\n">>,
      <<"DEBUG:", "note", "\n">>,
      <<"{", "message", "", "}", "\n">>,
      <<"plain", "\n", "more", "\n">>,
      <<"plain", "\n", "{", "message", "", "}", "\n">> }

\* write(chunk), and for one chunk write(chunk, encoding, callback) and
\* write(chunk, callback)
WriteCalls ==
    { Call(chunk, "undefined", "undefined") : chunk \in Chunks }
    \cup { Call(<<"plain", "\n">>, "utf8", "function"),
           Call(<<"plain", "\n">>, "function", "undefined") }

\* --- what the manager prints
OnlyAppenders == <<"Only appenders can send logs", "\n">>
ChannelClosedSkipping(peerId) ==
    <<"Data channel to", ToString(peerId), "is closed, skipping log send", "\n">>
FallbackLine == <<"[OpenPull", "Log]", "\n">>
ReplayNotice == <<"[OpenPull", "]", "Sending buffered logs to new connection", "\n">>

Diagnostics ==
    {OnlyAppenders, FallbackLine, ReplayNotice}
    \cup {ChannelClosedSkipping(p) : p \in PeerIds}

ConsoleCall(stream, chunk) ==
    [stream |-> stream, call |-> Call(chunk, "undefined", "undefined")]

RECURSIVE Ascending(_)
Ascending(S) ==
    IF S = {} THEN <<>>
    ELSE LET least == CHOOSE x \in S : \A y \in S : x <= y
         IN <<least>> \o Ascending(S \ {least})

RECURSIVE Concat(_)
Concat(seqs) == IF seqs = <<>> THEN <<>> ELSE Head(seqs) \o Concat(Tail(seqs))

\* WebRTCManager.sendLog: the console calls one call makes, in order
sendLog_prints(role, conns, logData) ==
    IF role # "appender" THEN <<ConsoleCall("stderr", OnlyAppenders)>>
    ELSE LET readers == Ascending({p \in DOMAIN conns :
                            /\ conns[p].role = "reader"
                            /\ conns[p].isConnected
                            /\ conns[p].dataChannel # "none"})
             skipped == Concat([i \in 1..Len(readers) |->
                            IF conns[readers[i]].dataChannel = "open" THEN <<>>
                            ELSE <<ConsoleCall("stdout", ChannelClosedSkipping(readers[i]))>>])
         IN  IF sendLog(role, conns, logData) = NoSends
             THEN skipped \o <<ConsoleCall("stdout", FallbackLine)>>
             ELSE skipped

\* --- the delivery of one handler; its effects are collected in a record
Effects(buf, out, wr, sub) ==
    [buffer |-> buf, sent |-> out, written |-> wr, submitted |-> sub]

\* sendLogData(logData) with isForwarding false: the entry is buffered and, with
\* a manager, sent with isForwarding true, so what sendLog prints reaches the
\* underlying writers only
sendLogData(fx, manager, role, conns, logData, str) ==
    LET buf == addLog(fx.buffer, logData, now)
        sub == Append(fx.submitted, [chunk |-> str, entry |-> logData])
    IN  IF ~manager THEN Effects(buf, fx.sent, fx.written, sub)
        ELSE Effects(buf,
                     [p \in PeerIds |-> fx.sent[p] \o sendLog(role, conns, logData)[p]],
                     fx.written \o sendLog_prints(role, conns, logData),
                     sub)

\* the filter of the four handlers
passesFilter(str, forwarding) ==
    /\ trim(str) # <<>>
    /\ ~forwarding
    /\ ~includes(str, "[OpenPull")
    /\ ~includes(str, "DEBUG:")

\* the body shared by the four handlers: filter, parse, submit
handleChunk(fx, manager, role, conns, stream, str) ==
    IF passesFilter(str, FALSE)
    THEN LET logData == parseLogLine(str, DefaultLevel(stream), now) IN
         IF Truthy(logData["message"])
         THEN sendLogData(fx, manager, role, conns, logData, str)
         ELSE fx
    ELSE fx

\* the arguments a patched write hands to the write it replaced
PassOn(call) ==
    IF call.encodingOrCallback = "function"
    THEN Call(call.chunk, call.encodingOrCallback, "undefined")
    ELSE Call(call.chunk, call.encodingOrCallback, call.callback)

\* stream.write(...) with the interceptors `stack` installed, the last one
\* outermost; each hands the call to the write it replaced
RECURSIVE patchedWrite(_, _, _, _, _, _, _)
patchedWrite(fx, stack, manager, role, conns, stream, call) ==
    IF stack = <<>>
    THEN [fx EXCEPT !.written = Append(@, [stream |-> stream, call |-> call])]
    ELSE patchedWrite(handleChunk(fx, manager, role, conns, stream, call.chunk),
                      SubSeq(stack, 1, Len(stack) - 1),
                      manager, role, conns, stream, PassOn(call))

\* a 'data' event with n listeners attached
RECURSIVE onData(_, _, _, _, _, _, _)
onData(fx, n, manager, role, conns, stream, chunk) ==
    IF n = 0 THEN fx
    ELSE onData(handleChunk(fx, manager, role, conns, stream, chunk),
                n - 1, manager, role, conns, stream, chunk)

\* console.log/warn/error outside sendLogData: each call is a write to the
\* process stream
RECURSIVE consoleCalls(_, _, _, _, _, _)
consoleCalls(fx, stacks, manager, role, conns, prints) ==
    IF prints = <<>> THEN fx
    ELSE consoleCalls(patchedWrite(fx, stacks[Head(prints).stream], manager, role, conns,
                                   Head(prints).stream, Head(prints).call),
                      stacks, manager, role, conns, Tail(prints))

\* connection.ts onConnection handler: a notice, then sendLog for each entry of
\* the snapshot
RECURSIVE replayEach(_, _, _, _, _)
replayEach(fx, stacks, role, conns, logs) ==
    IF logs = <<>> THEN fx
    ELSE replayEach(
            consoleCalls([fx EXCEPT !.sent = [p \in PeerIds |->
                                        @[p] \o sendLog(role, conns, Head(logs))[p]]],
                         stacks, TRUE, role, conns,
                         sendLog_prints(role, conns, Head(logs))),
            stacks, role, conns, Tail(logs))

onConnectionReplay(fx, stacks, role, conns) ==
    LET bufferedLogs == getBufferedLogs(fx.buffer, now)
        purged == [fx EXCEPT !.buffer = getLogs_buffer(fx.buffer, now)]
    IN  IF bufferedLogs = <<>> THEN purged
        ELSE replayEach(consoleCalls(purged, stacks, TRUE, role, conns,
                                     <<ConsoleCall("stdout", ReplayNotice)>>),
                        stacks, role, conns, bufferedLogs)

\* --- actions
Clean == Effects(buffer, NoSends, <<>>, <<>>)

Takes(fx) ==
    /\ Len(fx.buffer) <= MaxBuffered
    /\ buffer' = fx.buffer
    /\ sent' = fx.sent
    /\ written' = fx.written
    /\ submitted' = fx.submitted

streamFrame == <<now, isForwarding, attached, signalingWs, myPeerId, peers,
                 cleanupInterval, joinTimers, peerRole, nextId, chanLast, chanFresh,
                 notified, delivery, lifeVars, mgr, parseInput, parseOutput,
                 observerVars, moduleCalls>>

Handle(kind, original) == [kind |-> kind, original |-> original, called |-> FALSE]

\* await connect(connectionString) of forward() and forwardStreams()
EnsureConnected ==
    /\ activeManager' = TRUE
    /\ IF myRole = "null"
       THEN \E role \in Roles : myRole' = role
       ELSE myRole' = myRole

\* ConnectionImpl.forward(process.stdout, process.stderr)
forward ==
    /\ Len(handles) < MaxForwards
    /\ EnsureConnected
    /\ handles' = Append(handles, Handle("forward", write))
    /\ write' = [s \in Streams |-> Append(write[s], Len(handles) + 1)]
    /\ received' = Event("forward", "stdout", NoEvent.call, NoPeerId)
    /\ Takes(Clean)
    /\ UNCHANGED <<listeners, rtcConnections, streamFrame>>

\* ConnectionImpl.forwardStreams(child.stdout, child.stderr)
forwardStreams ==
    /\ Len(handles) < MaxForwards
    /\ EnsureConnected
    /\ handles' = Append(handles, Handle("forwardStreams", write))
    /\ listeners' = [s \in Streams |-> listeners[s] + 1]
    /\ received' = Event("forwardStreams", "stdout", NoEvent.call, NoPeerId)
    /\ Takes(Clean)
    /\ UNCHANGED <<write, rtcConnections, streamFrame>>

\* the function forward() or forwardStreams() returned is called
cleanupHandle(k) ==
    /\ ~handles[k].called
    /\ handles' = [handles EXCEPT ![k].called = TRUE]
    /\ write' = IF handles[k].kind = "forward" THEN handles[k].original ELSE write
    /\ received' = Event("cleanup", "stdout", NoEvent.call, NoPeerId)
    /\ Takes(Clean)
    /\ UNCHANGED <<listeners, activeManager, myRole, rtcConnections, streamFrame>>

\* the application writes to process.stdout or process.stderr
StreamWrite(stream, call) ==
    /\ received' = Event("write", stream, call, NoPeerId)
    /\ Takes(patchedWrite(Clean, write[stream], activeManager, myRole, rtcConnections,
                          stream, call))
    /\ UNCHANGED <<write, listeners, handles, activeManager, myRole, rtcConnections,
                   streamFrame>>

\* the child's stream emits 'data'
StreamData(stream, chunk) ==
    /\ received' = Event("data", stream, Call(chunk, "undefined", "undefined"), NoPeerId)
    /\ Takes(onData(Clean, listeners[stream], activeManager, myRole, rtcConnections,
                    stream, chunk))
    /\ UNCHANGED <<write, listeners, handles, activeManager, myRole, rtcConnections,
                   streamFrame>>

\* dataChannel.onOpen of a connection to a peer of the other role
ChannelOpen(peerId) ==
    LET conns == PutKey(rtcConnections, peerId,
                        [NewConnection(IF myRole = "appender" THEN "reader" ELSE "appender",
                                       "open")
                            EXCEPT !.isConnected = TRUE, !.pcState = "connected"])
    IN  /\ activeManager
        /\ myRole # "null"
        /\ peerId \notin DOMAIN rtcConnections
        /\ rtcConnections' = conns
        /\ received' = Event("open", "stdout", NoEvent.call, peerId)
        /\ Takes(onConnectionReplay(Clean, write, myRole, conns))
        /\ UNCHANGED <<write, listeners, handles, activeManager, myRole, streamFrame>>

\* the channel is no longer open and its onClosed callback has not run yet
ChannelClosing(peerId) ==
    /\ peerId \in DOMAIN rtcConnections
    /\ rtcConnections[peerId].dataChannel = "open"
    /\ rtcConnections' = [rtcConnections EXCEPT ![peerId].dataChannel = "closed"]
    /\ received' = Event("closing", "stdout", NoEvent.call, peerId)
    /\ Takes(Clean)
    /\ UNCHANGED <<write, listeners, handles, activeManager, myRole, streamFrame>>

\* peer_disconnected
StreamPeerDisconnected(peerId) ==
    /\ peerId \in DOMAIN rtcConnections
    /\ rtcConnections' = handlePeerDisconnected_conns(rtcConnections, peerId)
    /\ received' = Event("peer_disconnected", "stdout", NoEvent.call, peerId)
    /\ Takes(Clean)
    /\ UNCHANGED <<write, listeners, handles, activeManager, myRole, streamFrame>>

\* the interception of streams, with a manager that has no peer
StreamNext ==
    \/ forward
    \/ forwardStreams
    \/ \E k \in 1..Len(handles) : cleanupHandle(k)
    \/ \E stream \in Streams, call \in WriteCalls : StreamWrite(stream, call)
    \/ \E stream \in Streams, chunk \in Chunks : StreamData(stream, chunk)

SpecStream == Init /\ [][StreamNext]_vars

\* one forward() and the delivery to peers whose channels open and close
DeliverNext ==
    \/ handles = <<>> /\ forward
    \/ \E stream \in Streams, call \in WriteCalls : StreamWrite(stream, call)
    \/ \E peerId \in PeerIds : ChannelOpen(peerId)
    \/ \E peerId \in PeerIds : ChannelClosing(peerId)
    \/ \E peerId \in PeerIds : StreamPeerDisconnected(peerId)

SpecDeliver == Init /\ [][DeliverNext]_vars

\* ============================================================ observer view
\* The handlers registered with onLog and onConnection and their invocation.
\* h1 returns, h2 throws, h3 calls the unregister handle of h1 and returns.
Handlers == {"h1", "h2", "h3"}
Throws(handler) == handler = "h2"

\* Set.prototype.add and Set.prototype.delete on a set kept in insertion order
add(set, handler) ==
    IF \E i \in 1..Len(set) : set[i] = handler THEN set ELSE Append(set, handler)
delete(set, handler) == SelectSeq(set, LAMBDA x : x # handler)

\* what running a handler does to the set it is in
RunHandler(set, handler) == IF handler = "h3" THEN delete(set, "h1") ELSE set

\* mutant: the handler is called without try/catch, so a throw ends the loop
RECURSIVE forEach_NoCatch(_, _, _)
forEach_NoCatch(set, todo, calls) ==
    IF todo = <<>> THEN [set |-> set, calls |-> calls]
    ELSE IF ~\E i \in 1..Len(set) : set[i] = Head(todo)
    THEN forEach_NoCatch(set, Tail(todo), calls)
    ELSE IF Throws(Head(todo)) THEN [set |-> set, calls |-> Append(calls, Head(todo))]
    ELSE forEach_NoCatch(RunHandler(set, Head(todo)), Tail(todo),
                         Append(calls, Head(todo)))

\* handlers.forEach(handler => { try { handler(...) } catch { console.error } }):
\* an entry deleted before its turn is not visited
RECURSIVE forEach(_, _, _)
forEach(set, todo, calls) ==
    IF todo = <<>> THEN [set |-> set, calls |-> calls]
    ELSE IF ~\E i \in 1..Len(set) : set[i] = Head(todo)
    THEN forEach(set, Tail(todo), calls)
    ELSE forEach(RunHandler(set, Head(todo)), Tail(todo), Append(calls, Head(todo)))

observerFrame == <<now, buffer, isForwarding, attached, activeManager, signalingWs,
                   myPeerId, myRole, peers, cleanupInterval, joinTimers, peerRole,
                   nextId, chanLast, chanFresh, sent, notified, delivery, lifeVars, mgr,
                   parseInput, parseOutput, write, listeners, handles, written,
                   submitted, moduleCalls>>

Observed(kind, peerId) == Event(kind, "stdout", NoEvent.call, peerId)

\* onLog(handler) and onConnection(handler)
Register(kind, handler) ==
    /\ registry' = [registry EXCEPT ![kind] = add(@, handler)]
    /\ issued' = issued \cup {<<kind, handler>>}
    /\ invoked' = <<>>
    /\ received' = Observed("register", NoPeerId)
    /\ UNCHANGED <<rtcConnections, observerFrame>>

\* the function onLog or onConnection returned is called
Unregister(kind, handler) ==
    /\ <<kind, handler>> \in issued
    /\ registry' = [registry EXCEPT ![kind] = delete(@, handler)]
    /\ invoked' = <<>>
    /\ received' = Observed("unregister", NoPeerId)
    /\ UNCHANGED <<issued, rtcConnections, observerFrame>>

Dispatch(kind) ==
    LET done == forEach(registry[kind], registry[kind], <<>>) IN
    /\ registry' = [registry EXCEPT ![kind] = done.set]
    /\ invoked' = done.calls

\* dataChannel.onMessage with a text that decodes
OnMessage(peerId) ==
    /\ peerId \in DOMAIN rtcConnections
    /\ Dispatch("log")
    /\ received' = Observed("message", peerId)
    /\ UNCHANGED <<issued, rtcConnections, observerFrame>>

\* dataChannel.onMessage with a text JSON.parse rejects
OnMessageGarbled(peerId) ==
    /\ peerId \in DOMAIN rtcConnections
    /\ invoked' = <<>>
    /\ received' = Observed("garbled", peerId)
    /\ UNCHANGED <<registry, issued, rtcConnections, observerFrame>>

\* dataChannel.onOpen
OnOpened(peerId) ==
    /\ peerId \notin DOMAIN rtcConnections
    /\ rtcConnections' = PutKey(rtcConnections, peerId,
            [NewConnection("reader", "open") EXCEPT !.isConnected = TRUE,
                                                    !.pcState = "connected"])
    /\ Dispatch("connection")
    /\ received' = Observed("connectionChange", peerId)
    /\ UNCHANGED <<issued, observerFrame>>

\* peer_disconnected for a peer with a connection
OnPeerGone(peerId) ==
    /\ peerId \in DOMAIN rtcConnections
    /\ rtcConnections' = handlePeerDisconnected_conns(rtcConnections, peerId)
    /\ Dispatch("connection")
    /\ received' = Observed("connectionChange", peerId)
    /\ UNCHANGED <<issued, observerFrame>>

ObserveNext ==
    \/ \E kind \in ObserverKinds, handler \in Handlers : Register(kind, handler)
    \/ \E kind \in ObserverKinds, handler \in Handlers : Unregister(kind, handler)
    \/ \E peerId \in PeerIds : OnMessage(peerId)
    \/ \E peerId \in PeerIds : OnMessageGarbled(peerId)
    \/ \E peerId \in PeerIds : OnOpened(peerId)
    \/ \E peerId \in PeerIds : OnPeerGone(peerId)

SpecObserve == Init /\ [][ObserveNext]_vars

\* ================================================================ peer view
\* An authenticated manager, its peers and the events its peer-connections and
\* data channels deliver, the transient loss of connectivity and the close by
\* the remote side included; sendLog is called on the manager directly.

\* the state transitions a peer-connection reports
PcEvents ==
    PcTransitions \cup
    { <<"connected", "disconnected">>, <<"disconnected", "connected">>,
      <<"disconnected", "failed">>, <<"connected", "closed">>,
      <<"disconnected", "closed">> }

\* notifyConnectionChange calls of onStateChange(connectionState)
onStateChange_notes(connectionState) ==
    IF connectionState = "connected" THEN <<TRUE>>
    ELSE IF connectionState = "disconnected" \/ connectionState = "failed" THEN <<FALSE>>
    ELSE <<>>

\* peerConnection.onStateChange(connectionState) of the connection to peerId
PcEvent(peerId, tr) ==
    LET conns == [rtcConnections EXCEPT ![peerId] = onStateChange(@, tr[2])] IN
    /\ peerId \in DOMAIN rtcConnections
    /\ rtcConnections[peerId].pcState = tr[1]
    /\ tr[1] = "new" => isConnected
    /\ rtcConnections' = conns
    /\ notified' = [NoNotes EXCEPT ![peerId] = onStateChange_notes(tr[2])]
    /\ NotifyReplay(conns, tr[2] = "connected")
    /\ chanLast' = LastOf(sent', chanLast, conns)
    /\ chanFresh' = chanFresh
    /\ UNCHANGED extVars
    /\ UNCHANGED <<now, isForwarding, attached, activeManager,
                   signalingWs, myPeerId, myRole, peers, cleanupInterval,
                   joinTimers, peerRole, nextId>>

\* the native peer-connection of peerId is gone: state() throws from now on
PcUnreadable(peerId) ==
    /\ peerId \in DOMAIN rtcConnections
    /\ rtcConnections[peerId].pcState \in {"connected", "disconnected"}
    /\ rtcConnections' = [rtcConnections EXCEPT ![peerId].pcState = "unreadable"]
    /\ sent' = NoSends
    /\ notified' = NoNotes
    /\ delivery' = "none"
    /\ UNCHANGED <<chanLast, chanFresh>>
    /\ UNCHANGED extVars
    /\ UNCHANGED <<now, buffer, isForwarding, attached, activeManager, signalingWs,
                   myPeerId, myRole, peers, cleanupInterval, joinTimers, peerRole,
                   nextId>>

\* mutant: sendMessage is called without try/catch, so the first throw ends
\* the loop and leaves sendLog
sendLogThrowing_NoCatch(role, conns, logData, failing) ==
    LET takes == sendLog(role, conns, logData)
        thrown == {p \in failing \cap PeerIds : takes[p] # <<>>}
    IN  [sent |-> [p \in PeerIds |->
                      IF \E q \in thrown : q <= p THEN <<>> ELSE takes[p]],
         returns |-> thrown = {}]

\* WebRTCManager.sendLog while sendMessage throws on the channels of `failing`
sendLogThrowing(role, conns, logData, failing) ==
    LET takes == sendLog(role, conns, logData) IN
    [sent |-> [p \in PeerIds |-> IF p \in failing THEN <<>> ELSE takes[p]],
     returns |-> TRUE]

\* manager.sendLog(logData) called by the application; sendMessage throws on the
\* channel of `failing` (NoPeerId: on none)
ManagerSendLog(failing) ==
    LET done == sendLogThrowing(myRole, rtcConnections, nextId, {failing}) IN
    /\ activeManager
    /\ sent' = done.sent
    /\ delivery' = IF done.returns THEN "sendLog" ELSE "sendLog threw"
    /\ notified' = NoNotes
    /\ UNCHANGED <<chanLast, chanFresh>>
    /\ UNCHANGED extVars
    /\ UNCHANGED <<now, buffer, isForwarding, attached, mgrVars, peerRole, nextId>>

PeersNext ==
    \/ Forward
    \/ WsOpen
    \/ AuthSuccess
    \/ PeerList
    \/ PeerJoined
    \/ JoinTimerFire
    \/ PeerDisconnected
    \/ WebRTCOffer
    \/ OnDataChannel
    \/ DataChannelOpen
    \/ DataChannelClosed
    \/ \E peerId \in PeerIds, tr \in PcEvents : PcEvent(peerId, tr)
    \/ \E peerId \in PeerIds : PcUnreadable(peerId)
    \/ SweepTick
    \/ \E failing \in PeerIds \cup {NoPeerId} : ManagerSendLog(failing)

SpecPeers == Init /\ [][PeersNext]_vars

\* ================================================================== claims
Last(seq) == seq[Len(seq)]
EntriesOf(msgs) == [i \in 1..Len(msgs) |-> msgs[i][2]]
Range(seq) == {seq[i] : i \in 1..Len(seq)}

\* the connection to p has role reader, isConnected set and an open data channel
IsOpenReader(p) ==
    /\ p \in DOMAIN rtcConnections
    /\ rtcConnections[p].role = "reader"
    /\ rtcConnections[p].isConnected
    /\ rtcConnections[p].dataChannel = "open"

\* the last step was the open event of p's data channel (a 'connected' state
\* event also notifies connected=true, but it precedes the channel's opening)
ChannelOpened(p) ==
    /\ delivery = "replay"
    /\ notified[p] = <<TRUE>>
    /\ p \in DOMAIN rtcConnections
    /\ rtcConnections[p].dataChannel = "open"

\* C1: every entry submitted through sendLogData is the newest entry of the
\* retention buffer when the call returns, whatever the delivery state is.
C1_SubmittedEntryIsBuffered ==
    delivery = "sendLogData" =>
        /\ buffer # <<>>
        /\ Last(buffer) = [logData |-> nextId - 1, timestamp |-> now]

\* C1 witness: an entry submitted after the manager was cleaned up is buffered
C1_Witness ==
    /\ delivery = "sendLogData"
    /\ signalingWs = "null"
    /\ myRole = "null"
    /\ buffer # <<>>
    /\ Last(buffer).logData = nextId - 1

\* C2: with own role appender, a submitted entry is handed exactly once to the
\* channel of every connection that has role reader, isConnected and an open
\* channel, and to no other connection.
C2_SentExactlyToOpenReaders ==
    (delivery = "sendLogData" /\ myRole = "appender") =>
        \A p \in PeerIds :
            sent[p] = IF IsOpenReader(p) THEN <<JSONstringify(nextId - 1)>> ELSE <<>>

\* C2 witness: one open reader takes the entry while a connected appender-role
\* connection with an open channel gets nothing
C2_Witness ==
    /\ delivery = "sendLogData"
    /\ myRole = "appender"
    /\ \E p \in PeerIds : IsOpenReader(p) /\ sent[p] # <<>>
    /\ \E q \in DOMAIN rtcConnections :
          /\ rtcConnections[q].role = "appender"
          /\ rtcConnections[q].isConnected
          /\ rtcConnections[q].dataChannel = "open"
          /\ sent[q] = <<>>

\* C3 (as claimed): the open event of p's data channel sends the buffered
\* entries on p's channel only; no other peer's channel carries a message.
C3_ReplayOnlyOnOpenedChannel ==
    \A p \in PeerIds :
        ChannelOpened(p) => \A q \in PeerIds \ {p} : sent[q] = <<>>

\* C4 (as claimed): between the open event of a reader's channel and the next
\* submission the reader is sent exactly the buffer snapshot taken at the open,
\* each entry once and in enqueue order.
C4_ReplayIsExactlySnapshot ==
    \A p \in PeerIds :
        /\ (ChannelOpened(p) /\ myRole = "appender" /\ rtcConnections[p].role = "reader")
              => EntriesOf(sent[p]) = LogDataOf(buffer)
        /\ (chanFresh[p] /\ sent[p] # <<>>) => ChannelOpened(p)

\* C5: no step removes an entry that is still within retention, and the open
\* event of a reader's channel sends that reader every buffered entry that is
\* within retention; so readers opening at t1 < t2 are both sent every entry
\* buffered at t1 and unexpired at t2.
C5_NonDestructiveReplay ==
    [][ /\ \A i \in 1..Len(buffer) :
              buffer[i].timestamp >= now' - BUFFER_RETENTION_MS
                  => buffer[i] \in Range(buffer')
        /\ \A p \in PeerIds :
              (ChannelOpened(p)' /\ myRole' = "appender"
                   /\ rtcConnections'[p].role = "reader")
                  => /\ EntriesOf(sent'[p]) = LogDataOf(buffer')
                     /\ \A i \in 1..Len(buffer) :
                           buffer[i].timestamp >= now - BUFFER_RETENTION_MS
                               => buffer[i].logData \in Range(EntriesOf(sent'[p]))
      ]_vars

\* C5 witness: a second reader's channel opens later than the entry was
\* enqueued and is sent an entry that the first, still open, reader was sent
C5_Witness ==
    \E p \in PeerIds : \E q \in PeerIds \ {p} :
        /\ ChannelOpened(q)
        /\ IsOpenReader(p)
        /\ chanLast[p] # 0
        /\ \E i \in 1..Len(buffer) :
              /\ buffer[i].timestamp < now
              /\ buffer[i].logData <= chanLast[p]
              /\ buffer[i].logData \in Range(EntriesOf(sent[q]))

\* a step that runs a buffer operation: insert, read or size
BufferOperation == GetBufferSize \/ delivery' = "sendLogData" \/ delivery' = "replay"

\* C6 (as claimed): after a buffer operation at time t' no entry enqueued at a
\* time t with t' >= t + 60 s is in the buffer, the boundary included.
C6_RetentionBoundaryIncluded ==
    [][ BufferOperation =>
            \A i \in 1..Len(buffer') :
                now' < buffer'[i].timestamp + BUFFER_RETENTION_MS ]_vars

\* C6 (amended): after a buffer operation at time t' no entry enqueued at a
\* time t with t' > t + 60 s is in the buffer.
C6_RetentionStrictlyOlder ==
    [][ BufferOperation =>
            \A i \in 1..Len(buffer') :
                now' <= buffer'[i].timestamp + BUFFER_RETENTION_MS ]_vars

\* C6 witness: a buffer read more than 60 s after the only submissions leaves
\* the buffer empty
C6_Witness ==
    /\ delivery = "replay"
    /\ nextId > 1
    /\ buffer = <<>>
    /\ now > BUFFER_RETENTION_MS

\* C7: every entry sent by a replay is a buffered entry enqueued at most 60 s
\* before the replay.
C7_NoExpiredEntryReplayed ==
    delivery = "replay" =>
        \A p \in PeerIds : \A i \in 1..Len(sent[p]) :
            \E j \in 1..Len(buffer) :
                /\ buffer[j].logData = sent[p][i][2]
                /\ buffer[j].timestamp + BUFFER_RETENTION_MS >= now

\* C7 witness: an entry was submitted, the channel of a reader opens more than
\* 60 s later and nothing is replayed
C7_Witness ==
    \E p \in PeerIds :
        /\ ChannelOpened(p)
        /\ IsOpenReader(p)
        /\ myRole = "appender"
        /\ nextId > 1
        /\ now > BUFFER_RETENTION_MS
        /\ sent[p] = <<>>

\* C8 (as claimed): on any one channel no entry is sent after an entry that
\* was submitted later.
C8_PerChannelSubmissionOrder ==
    [][ \A p \in PeerIds :
            LET seq == <<chanLast[p]>> \o EntriesOf(sent'[p]) IN
            \A i \in 1..Len(seq) : \A j \in i..Len(seq) : seq[i] <= seq[j] ]_vars

\* C9: a delivery call made while the own role is not appender hands nothing
\* to any data channel, and sendLogData then leaves the manager state as it was.
C9_RoleGuard ==
    [][ (delivery' # "none" /\ myRole # "appender") =>
            /\ sent' = NoSends
            /\ delivery' = "sendLogData" => UNCHANGED mgrVars ]_vars

\* C9 witness: a delivery call as reader while a reader-role connection is
\* connected with an open channel and the buffer holds an entry
C9_Witness ==
    /\ delivery # "none"
    /\ myRole = "reader"
    /\ buffer # <<>>
    /\ sent = NoSends
    /\ \E p \in PeerIds : IsOpenReader(p)

\* C10 (as claimed): no RTC connection exists for a peer whose role equals the
\* manager's own role.
C10_NoSameRoleConnection ==
    \A p \in DOMAIN rtcConnections : peerRole[p] # myRole

\* C12 (as claimed): once the data channel of P has closed, P's RTC connection
\* is out of the connection set, at the latest when the next stale sweep has run.
C12_ClosedChannelConnectionRemoved ==
    [][ SweepTick =>
            \A p \in DOMAIN rtcConnections' :
                rtcConnections'[p].dataChannel # "closed" ]_vars

\* C14 (as claimed): from the return of disconnect() to the next connect() call
\* the RTC connection set is empty.
C14_NoConnectionAfterDisconnect ==
    (activeManager /\ signalingWs = "null") => rtcConnections = EmptyMap

\* each of the two processes has learned of the other's current id, and the
\* connection setup it scheduled for that id has run
LearnedOfEachOther ==
    /\ BothPresent
    /\ \A x \in Sides :
          /\ mgr[Other(x)].myPeerId \in DOMAIN mgr[x].peers
          /\ \A t \in mgr[x].joinTimers : t[1] # mgr[Other(x)].myPeerId

\* C11 (as claimed): of two complementary-role processes that have learned of
\* each other, the one with the smaller id has created the data channel and
\* the other one has not.
C11_ExactlyTheSmallerInitiates ==
    \A x \in Sides :
        LET m == mgr[x]
            o == mgr[Other(x)]
        IN  (/\ LearnedOfEachOther
             /\ shouldConnectToPeer(m.myRole, o.myRole)
             /\ m.myPeerId < o.myPeerId)
            => /\ CreatedDataChannel(m, o.myPeerId)
               /\ ~CreatedDataChannel(o, m.myPeerId)

\* the state cleanup(state) leaves in the manager's fields
CleanedUp ==
    /\ ~cleanupInterval
    /\ rtcConnections = EmptyMap
    /\ peers = EmptyMap
    /\ wsHandle = 0
    /\ signalingWs = "null"
    /\ myPeerId = NoPeerId
    /\ myRole = "null"

\* C13 (as claimed): when disconnect() returns no stale-sweep timer is armed
\* and the manager's fields are in the cleaned-up state.
C13_DisconnectStopsEverything ==
    [][ disconnect => (liveIntervals' = 0 /\ CleanedUp') ]_vars

\* C15: the close event of a socket leaves the manager's fields in the
\* cleaned-up state and opens no socket; a socket is opened only by a connect()
\* call; the reconnection attempt counter never exceeds 5.
C15_SocketLossCleansUpNoReconnect ==
    [][ /\ \A k \in 1..Len(connects) :
              (connects[k].ws # "closed" /\ connects'[k].ws = "closed")
                  => (CleanedUp' /\ Len(connects') = Len(connects))
        /\ Len(connects') # Len(connects)
              => \E connectionString \in ConnectionStrings, fields \in DefaultFieldsArgs :
                     connect(connectionString, fields)
        /\ reconnectionAttempts' <= maxReconnectionAttempts
      ]_vars

\* C15 witness: the socket of an authenticated session has closed, the
\* manager is cleaned up and no other socket exists
C15_Witness ==
    /\ Len(connects) = 1
    /\ connects[1].ws = "closed"
    /\ connects[1].authed
    /\ CleanedUp
    /\ reconnectionAttempts = 0

\* C16 (as claimed): an auth_challenge received on the socket the manager
\* holds is answered with exactly one auth message on that socket, carrying
\* the own role and the HMAC proof.
C16_ChallengeAnsweredOnce ==
    [][ \A k \in 1..Len(connects) :
            (connects[k].server = "idle" /\ connects'[k].server # "idle" /\ wsHandle = k)
                => \E m \in outbox' \ outbox :
                      /\ outbox' = outbox \cup {m}
                      /\ m.to = k
                      /\ m.message.type = "auth"
                      /\ m.message.role = myRole
                      /\ \E timestamp \in Timestamps :
                            m.message.proof = ExpectedAuth(k, timestamp).proof
      ]_vars

\* the key can be read from the message
Exposes(message, key) ==
    \/ message.type = key
    \/ message.role = key
    \/ message.proof.kind = "text" /\ message.proof.text = key
    \/ message.defaultFields = key

\* C17: no message handed to a signaling socket and no socket URL lets a
\* session key be read.
C17_KeyNeverTransmitted ==
    /\ \A m \in outbox : \A key \in Keys : ~Exposes(m.message, key)
    /\ \A k \in 1..Len(connects) : \A i \in 1..Len(connects[k].url) :
          connects[k].url[i] \notin Keys

\* C17 witness: auth, peer_discovery and a WebRTC message have gone out while
\* the manager holds a key
C17_Witness ==
    /\ myKeyHex \in Keys
    /\ \E m \in outbox : m.message.type = "auth" /\ m.message.proof.kind = "digest"
    /\ \E m \in outbox : m.message.type = "peer_discovery"
    /\ \E m \in outbox : m.message.type = "webrtc_offer"
    /\ \E m \in outbox : m.message.type = "webrtc_ice_candidate"

\* C18 (as claimed): isConnected() holds, and peer_discovery is sent, only on
\* a socket on which an auth_success has been processed.
C18_NoDiscoveryBeforeAuthSuccess ==
    /\ isConnected => (wsHandle # 0 /\ connects[wsHandle].authed)
    /\ \A m \in outbox : m.message.type = "peer_discovery" => connects[m.to].authed

\* C19: a server error on the socket of a pending connect rejects its promise
\* with the server's message, and a settled promise keeps its outcome.
C19_ErrorRejectsPendingOnly ==
    [][ \A k \in 1..Len(connects) :
            /\ (OnMessageError(k) /\ connects[k].promise = "pending")
                  => /\ connects'[k].promise = "rejected"
                     /\ connects'[k].reason \in ServerErrors
            /\ connects[k].promise # "pending"
                  => /\ connects'[k].promise = connects[k].promise
                     /\ connects'[k].reason = connects[k].reason
      ]_vars

\* C19 witness: one connect was rejected by a server error, another resolved
\* and its socket then reported an error
C19_Witness ==
    /\ Len(connects) = 2
    /\ connects[1].promise = "rejected"
    /\ connects[1].reason \in ServerErrors
    /\ connects[2].promise = "resolved"
    /\ connects[2].ws = "closing"
    /\ wsHandle = 2

\* C20: a connect() call with a connection string the parser rejects returns
\* a rejected promise, opens no socket, arms no timer, and leaves role, key,
\* token and the sockets as they were.
C20_MalformedStringLeavesManager ==
    [][ (/\ Len(connects') = Len(connects) + 1
         /\ ~parseConnectionString(connects'[Len(connects')].input).ok)
        => /\ connects'[Len(connects')].promise = "rejected"
           /\ connects'[Len(connects')].ws = "none"
           /\ \A k \in 1..Len(connects) : connects'[k] = connects[k]
           /\ UNCHANGED <<signalingWs, wsHandle, liveIntervals, cleanupInterval,
                          myRole, myKeyHex, myPublicToken>>
      ]_vars

\* C20 witness: a malformed string was given while an earlier session is
\* being set up, whose role and key are still in place
C20_Witness ==
    /\ Len(connects) = 2
    /\ connects[1].ws = "open"
    /\ ~parseConnectionString(connects[2].input).ok
    /\ connects[2].promise = "rejected"
    /\ wsHandle = 1
    /\ myRole = parseConnectionString(connects[1].input).role
    /\ myKeyHex = parseConnectionString(connects[1].input).key
    /\ liveIntervals = 1

\* ------------------------------------------------------------------- C21
\* what parseConnectionString was applied to and what came of it
ParsedString == parseInput.connectionString
StringApplied ==
    /\ parseInput.fn = "parseConnectionString"
    /\ parseOutput.state # "pending"
    /\ ParsedString.parses

Threw(error) == parseOutput.state = "threw" /\ parseOutput.error = error

ReturnsAsGiven ==
    /\ parseOutput.state = "returned"
    /\ parseOutput.info.host = ParsedString.host
    /\ parseOutput.info.role = ParsedString.username
    /\ parseOutput.info.key = ParsedString.password
    /\ parseOutput.info.publicToken =
          IF ParsedString.pathname \in {<<>>, <<"/">>} THEN "undefined"
          ELSE Tail(ParsedString.pathname)[1]

LineApplied ==
    /\ parseInput.fn = "parseLogLine"
    /\ parseOutput.state = "returned"

\* the level/type value the line carries: level, else type, else none
CarriedLevel ==
    LET text == trim(parseInput.line) IN
    IF ~JSONparses(text) THEN Undefined
    ELSE Coalesce(JSONparse(text)["level"], JSONparse(text)["type"])

\* C22: the entry the line parser produces has a type among the five literals
\* and a timestamp; a level/type value outside the five collapses to the
\* default severity.
C22_TypeIsOneOfFive ==
    LineApplied =>
        /\ parseOutput.entry["type"] \in {<<l>> : l \in Levels}
        /\ Truthy(parseOutput.entry["timestamp"])
        /\ (CarriedLevel # Undefined /\ CarriedLevel \notin {<<l>> : l \in Levels})
              => parseOutput.entry["type"] = <<parseInput.defaultLevel>>

\* ------------------------------------------------------------------- C23
\* C23: for a JSON object line the type is level, else type, else the default
\* (normalised); the message is message, else msg, else the trimmed line; the
\* timestamp is timestamp, else time, else now; every other field is passed
\* through. A line that does not decode gives {default, trimmed line, now}.
C23_FieldsByPrecedence ==
    LineApplied =>
        LET text == trim(parseInput.line)
            d == <<parseInput.defaultLevel>>
            e == parseOutput.entry
        IN  IF text # <<>> /\ JSONparses(text)
            THEN LET parsed == JSONparse(text)
                     wanted == Coalesce(parsed["level"], Coalesce(parsed["type"], d))
                 IN /\ e["type"] = IF wanted \in {<<l>> : l \in Levels} THEN wanted ELSE d
                    /\ e["message"] = Coalesce(parsed["message"],
                                               OrElse(parsed["msg"], text))
                    /\ e["timestamp"] = Coalesce(parsed["timestamp"],
                                                 OrElse(parsed["time"], toISOString(now)))
                    /\ \A f \in {"level", "msg", "time", "extra"} : e[f] = parsed[f]
            ELSE e = Entry(d, text, toISOString(now))

\* ------------------------------------------------------------------- C24
\* the lines of a chunk
RECURSIVE splitLines(_)
splitLines(str) ==
    IF str = <<>> THEN <<>>
    ELSE IF ~includes(str, "\n") THEN <<str>>
    ELSE LET n == CHOOSE i \in 1..Len(str) :
                     str[i] = "\n" /\ \A j \in 1..(i - 1) : str[j] # "\n"
         IN <<SubSeq(str, 1, n - 1)>> \o splitLines(SubSeq(str, n + 1, Len(str)))

\* a line that is neither empty nor filtered
Deliverable(line, stream) ==
    /\ passesFilter(line, FALSE)
    /\ Truthy(parseLogLine(line, DefaultLevel(stream), now)["message"])

RECURSIVE EntriesOfLines(_, _)
EntriesOfLines(lines, stream) ==
    IF lines = <<>> THEN <<>>
    ELSE (IF Deliverable(Head(lines), stream)
          THEN <<parseLogLine(Head(lines), DefaultLevel(stream), now)>>
          ELSE <<>>) \o EntriesOfLines(Tail(lines), stream)

\* C24: a data chunk of a forwarded stream with k non-empty, non-filtered
\* lines gives k submitted entries, one per line, each parsed on its own.
C24_OneEntryPerLine ==
    (received.kind = "data" /\ listeners[received.stream] = 1) =>
        [i \in 1..Len(submitted) |-> submitted[i].entry]
            = EntriesOfLines(splitLines(received.call.chunk), received.stream)

\* ------------------------------------------------------------------- C25
\* the entry holds the text of the line
Carries(entry, line) ==
    LET text == trim(line)
        message == entry["message"]
    IN  /\ text # <<>>
        /\ \E i \in 1..Len(message) :
              /\ i + Len(text) - 1 <= Len(message)
              /\ SubSeq(message, i, i + Len(text) - 1) = text

\* C25: a line that is empty after trimming, whose parsed message is empty, or
\* that holds the marker [OpenPull or DEBUG: is not submitted, so it is neither
\* buffered nor sent; with forward() it is still written to the stream.
C25_FilteredLineNotDelivered ==
    received.kind \in {"write", "data"} =>
        /\ \A i \in 1..Len(splitLines(received.call.chunk)) :
              LET line == splitLines(received.call.chunk)[i] IN
              ~Deliverable(line, received.stream) =>
                  \A j \in 1..Len(submitted) : ~Carries(submitted[j].entry, line)
        /\ received.kind = "write" =>
              \E j \in 1..Len(written) : written[j].call.chunk = received.call.chunk

\* ------------------------------------------------------------------- C26
\* C26: with the own streams intercepted, what the delivery path writes (the
\* prints of sendLog in the immediate broadcast and in the replay on channel
\* open) reaches the underlying writer and is never submitted as an entry.
C26_DeliveryWritesNotSubmitted ==
    \A i \in 1..Len(submitted) : submitted[i].chunk \notin Diagnostics

\* ------------------------------------------------------------------- C27
\* encoding and callback of a write call, whichever form it has
EncodingOf(call) ==
    IF call.encodingOrCallback = "function" THEN "undefined" ELSE call.encodingOrCallback
CallbackOf(call) ==
    IF call.encodingOrCallback = "function" THEN "function" ELSE call.callback

\* C27: while forward() is active every write reaches the original writer
\* exactly once with the same chunk, encoding and callback; once the cleanup
\* handles were called a write goes to the original writer and submits nothing.
C27_WriteMirroredAndRestored ==
    received.kind = "write" =>
        LET mine == {j \in 1..Len(written) :
                        /\ written[j].stream = received.stream
                        /\ written[j].call.chunk = received.call.chunk}
        IN  /\ Cardinality(mine) = 1
            /\ \A j \in mine :
                  /\ EncodingOf(written[j].call) = EncodingOf(received.call)
                  /\ CallbackOf(written[j].call) = CallbackOf(received.call)
            /\ (\A k \in 1..Len(handles) : handles[k].called) => submitted = <<>>

\* ------------------------------------------------------------------- C28
\* C28: after the cleanup function forwardStreams() returned was called, a
\* 'data' event of the readables submits no entry.
C28_DetachedListenersSubmitNothing ==
    (/\ received.kind = "data"
     /\ handles # <<>>
     /\ \A k \in 1..Len(handles) : handles[k].called)
        => submitted = <<>>

\* ------------------------------------------------------------------- C29
Times(calls, handler) == Cardinality({i \in 1..Len(calls) : calls[i] = handler})

\* the registry an event of the kind `received` names is dispatched to
DispatchedTo ==
    IF received.kind = "message" THEN "log" ELSE "connection"

\* C29: a handler registered with onLog or onConnection is invoked on every
\* matching event until its unregister handle is called and never afterwards;
\* a handler that throws keeps no other handler from being invoked for the
\* event and changes no manager state.
C29_HandlersInvokedWhileRegistered ==
    [][ received'.kind \in {"message", "connectionChange"} =>
          /\ \A h \in Handlers :
                (\E i \in 1..Len(registry'[DispatchedTo']) : registry'[DispatchedTo'][i] = h)
                    => Times(invoked', h) = 1
          /\ \A i \in 1..Len(invoked') :
                /\ \E j \in 1..Len(registry[DispatchedTo']) :
                      registry[DispatchedTo'][j] = invoked'[i]
                /\ \A j \in 1..(i - 1) : ~(invoked'[j] = "h3" /\ invoked'[i] = "h1")
          /\ received'.kind = "message" => UNCHANGED mgrVars
      ]_vars

\* a handler was invoked after one that threw, and one registered before was
\* not invoked because its handle had been called
C29_Witness ==
    /\ received.kind = "message"
    /\ Len(invoked) >= 2
    /\ invoked[1] = "h2"
    /\ <<"log", "h1">> \in issued
    /\ Times(invoked, "h1") = 0

\* ------------------------------------------------------------------- C30
\* C30: connect(s) of connection.ts reuses the existing connection only when
\* the manager is connected to the same connection string; a connect with a
\* different connection string is not treated as already connected.
C30_ReuseOnlyForSameString ==
    \A i \in 1..Len(moduleCalls) :
        moduleCalls[i].reused => moduleCalls[i].input = moduleCalls[i].connectedTo

\* ------------------------------------------------------------------- C31
\* C31: a stale-sweep tick runs the teardown (connection and registry entry
\* removed, connected=false notified) for exactly the connections whose
\* peer-connection state is closed or failed or cannot be read, and leaves every
\* other connection, its registry entry and its isConnected flag as they were.
C31_SweepTearsDownExactlyStale ==
    [][ SweepTick =>
          LET stale == {p \in DOMAIN rtcConnections :
                           rtcConnections[p].pcState \in {"closed", "failed", "unreadable"}}
          IN  /\ \A p \in stale :
                    /\ p \notin DOMAIN rtcConnections'
                    /\ p \notin DOMAIN peers'
                    /\ notified'[p] = <<FALSE>>
              /\ \A p \in PeerIds \ stale :
                    /\ notified'[p] = <<>>
                    /\ p \in DOMAIN rtcConnections' <=> p \in DOMAIN rtcConnections
                    /\ p \in DOMAIN rtcConnections => rtcConnections'[p] = rtcConnections[p]
                    /\ p \in DOMAIN peers' <=> p \in DOMAIN peers
                    /\ p \in DOMAIN peers => peers'[p] = peers[p]
      ]_vars

\* C31 witness: one tick has torn down the connections to both peers
C31_Witness ==
    /\ cleanupInterval
    /\ rtcConnections = EmptyMap
    /\ \A p \in PeerIds : notified[p] = <<FALSE>>

\* ------------------------------------------------------------------- C32
\* C32 (as claimed): a connection created for an incoming offer carries the
\* registry role of the offering peer, or reader without a registry entry, and
\* once peer_list or peer_joined has reported the peer's role the connection
\* carries the reported role.
C32_OfferRoleCorrected ==
    /\ \A p \in DOMAIN rtcConnections \ DOMAIN peers :
          rtcConnections[p].role \in Roles
    /\ \A p \in DOMAIN rtcConnections \cap DOMAIN peers :
          rtcConnections[p].role = peers[p]

\* ------------------------------------------------------------------- C33
\* the connection has gone through a teardown path and is still in the map:
\* its channel has closed, or its peer-connection has failed or closed
TornDown(conn) ==
    \/ conn.dataChannel = "closed"
    \/ conn.pcState = "failed"
    \/ conn.pcState = "closed"

\* C33 (as claimed): a connection that has gone through a teardown path is
\* not connected after any later step, and no later step notifies
\* connected=true for its peer while the record exists.
C33_ClosedIsTerminal ==
    [][ \A p \in DOMAIN rtcConnections \cap DOMAIN rtcConnections' :
            TornDown(rtcConnections[p])
                => /\ ~rtcConnections'[p].isConnected
                   /\ notified'[p] # <<TRUE>> ]_vars

\* ------------------------------------------------------------------- C34
\* C34: the step that handles a peer_list creates the connection of every
\* listed peer of the complementary role; the step that handles a peer_joined
\* creates none and leaves a timer, and the timer's firing creates it; none of
\* the three steps changes or replaces a connection that exists.
C34_ElectionTimingNoDuplicate ==
    [][ /\ PeerList =>
              \A p \in DOMAIN peers' :
                  shouldConnectToPeer(myRole, peers'[p])
                      => /\ p \in DOMAIN rtcConnections'
                         /\ p \notin DOMAIN rtcConnections
                               => rtcConnections'[p] =
                                     NewConnection(peers'[p],
                                         IF shouldBeInitiator(myPeerId, p)
                                         THEN "connecting" ELSE "none")
        /\ PeerJoined =>
              /\ rtcConnections' = rtcConnections
              /\ \A p \in DOMAIN peers' \ DOMAIN peers :
                    shouldConnectToPeer(myRole, peers'[p])
                        => <<p, peers'[p]>> \in joinTimers'
        /\ JoinTimerFire =>
              \A t \in joinTimers \ joinTimers' : t[1] \in DOMAIN rtcConnections'
        /\ (PeerList \/ PeerJoined \/ JoinTimerFire) =>
              \A p \in DOMAIN rtcConnections :
                  /\ p \in DOMAIN rtcConnections'
                  /\ rtcConnections'[p] = rtcConnections[p]
      ]_vars

\* C34 witness: the connection to peer 3 was created for its offer (this side,
\* with the smaller id, has no data channel of its own), the registry holds
\* peer 3 with the complementary role, no timer is pending, and the connection
\* is still as the offer created it
C34_Witness ==
    /\ 3 \in DOMAIN peers
    /\ shouldConnectToPeer(myRole, peers[3])
    /\ joinTimers = {}
    /\ 3 \in DOMAIN rtcConnections
    /\ rtcConnections[3] = NewConnection(peers[3], "none")
    /\ shouldBeInitiator(myPeerId, 3)

\* ------------------------------------------------------------------- C35
\* what sendLog hands to the channel of q when no send fails
Expected(q) ==
    IF myRole = "appender" /\ IsOpenReader(q) THEN <<JSONstringify(nextId)>> ELSE <<>>

\* C35: a sendLog call returns normally also when a send fails, every open
\* reader channel other than the failing one is handed the entry, and the call
\* leaves the connection set, the registry and every isConnected flag as they
\* were.
C35_SendFailureDoesNotPropagate ==
    [][ delivery' \in {"sendLog", "sendLog threw"} =>
            /\ delivery' = "sendLog"
            /\ \E failing \in PeerIds \cup {NoPeerId} :
                  \A q \in PeerIds \ {failing} : sent'[q] = Expected(q)
            /\ UNCHANGED <<rtcConnections, peers>>
      ]_vars

\* C35 witness: sendLog has returned after the send to one open reader failed,
\* and the other open reader was handed the entry
C35_Witness ==
    /\ delivery = "sendLog"
    /\ myRole = "appender"
    /\ \E p \in PeerIds : \E q \in PeerIds \ {p} :
          /\ IsOpenReader(p)
          /\ sent[p] = <<>>
          /\ IsOpenReader(q)
          /\ sent[q] = <<JSONstringify(nextId)>>

\* ------------------------------------------------------------------- C36
\* C36 (as claimed): a connection the peer_joined timer creates belongs to a
\* peer that is in the registry when the timer fires.
C36_TimerConnectsRegisteredPeerOnly ==
    [][ JoinTimerFire =>
            \A p \in DOMAIN rtcConnections' \ DOMAIN rtcConnections :
                p \in DOMAIN peers ]_vars

\* ------------------------------------------------------------------- C37
\* C37 (as claimed): the close event of a socket the manager no longer holds
\* leaves the socket it holds open, and leaves peerId, role, registry and RTC
\* connections as they are.
C37_SupersededCloseIsHarmless ==
    [][ \A k \in 1..Len(connects) :
            (/\ connects[k].ws # "closed"
             /\ connects'[k].ws = "closed"
             /\ wsHandle # 0
             /\ wsHandle # k)
            => /\ wsHandle' = wsHandle
               /\ connects'[wsHandle].ws = connects[wsHandle].ws
               /\ UNCHANGED <<myPeerId, myRole, peers, rtcConnections>> ]_vars

\* ------------------------------------------------------------------- C38
\* the sockets of the manager that are connecting or open
LiveSockets == {k \in 1..Len(connects) : connects[k].ws \in {"connecting", "open"}}

\* C38 (as claimed): at most one signaling socket and at most one stale-sweep
\* timer are live, and no sweep timer is armed once the manager is cleaned up.
C38_SingleSocketSingleTimer ==
    /\ Cardinality(LiveSockets) <= 1
    /\ liveIntervals <= 1
    /\ ~cleanupInterval => liveIntervals = 0

\* ------------------------------------------------------------------- C39
\* C39 (as claimed): the promise of every connect() call whose socket has
\* opened is eventually resolved or rejected.
C39_ConnectEventuallySettles ==
    \A k \in 1..MaxConnects :
        (Len(connects) >= k /\ connects[k].ws = "open")
            ~> (Len(connects) >= k /\ connects[k].promise # "pending")

\* ------------------------------------------------------------------- C40
\* forward() was called twice on the process streams
TwoForwards ==
    /\ Len(handles) = 2
    /\ \A k \in 1..2 : handles[k].kind = "forward"

\* C40 (as claimed): after two forward() calls, once both cleanup handles
\* were called, in either order, each stream's write is the original writer
\* and a write submits nothing; while both interceptions are active a write is
\* submitted at most once.
C40_NestedInterceptionUnwinds ==
    TwoForwards =>
        /\ (handles[1].called /\ handles[2].called)
              => /\ \A s \in Streams : write[s] = <<>>
                 /\ received.kind = "write" => submitted = <<>>
        /\ (received.kind = "write" /\ ~handles[1].called /\ ~handles[2].called)
              => Len(submitted) <= 1

====
